---------------------------- MODULE Spec2Model ----------------------------
(***************************************************************************)
(* A model of paper-trail-ph: the name normalization library, the entity   *)
(* resolver, the relationship deriver and RedFlagService.detect_all.       *)
(*                                                                         *)
(* Strings are sequences of one-character strings, so that the regular     *)
(* expressions and str methods of the source act on characters.            *)
(***************************************************************************)
EXTENDS Integers, Sequences, FiniteSets, TLC

VARIABLES
    \* RedFlagService.detect_all
    da_pc, da_result, da_status,
    \* normalize_contractor_name / normalize_politician_name applied twice
    nm_pc, nm_kind, nm_name, nm_once, nm_twice,
    \* pipeline transform --normalize: fuzzy_match_contractors, merge_entities
    rs_pc, contractor_list, matches, merge_results, rs_records, rs_prev,
    \* derive_co_bidding
    cb_pc, cb_rows, contract_bidders, cb_edges,
    \* derive_split_contracts
    sp_pc, sp_contracts, split_groups,
    \* a RedFlagService detector, or an analytics query, run on a graph store
    rf_pc, rf_args, graph, flags,
    \* main.py: _rate_limits, time.monotonic() and the requests answered
    rate_limits, now, answered,
    \* chat.event_generator and GraphRAGService.answer_stream
    ch_pc, ch_request, ch_intent, ch_tokens, ch_events,
    \* PhilGEPSCollector.collect: collector_state.json, the raw directory,
    \* the contracts files written and the calls of parse_xlsx so far
    state_file, raw_dir, contracts_files, parsed, runs

detectVars  == <<da_pc, da_result, da_status>>
normVars    == <<nm_pc, nm_kind, nm_name, nm_once, nm_twice>>
resolveVars == <<rs_pc, contractor_list, matches, merge_results, rs_records,
                 rs_prev>>
cobidVars   == <<cb_pc, cb_rows, contract_bidders, cb_edges>>
splitVars   == <<sp_pc, sp_contracts, split_groups>>
flagVars    == <<rf_pc, rf_args, graph, flags>>
limitVars   == <<rate_limits, now, answered>>
chatVars    == <<ch_pc, ch_request, ch_intent, ch_tokens, ch_events>>
collectorVars == <<state_file, raw_dir, contracts_files, parsed, runs>>
serviceVars == <<limitVars, chatVars, collectorVars>>
vars == <<detectVars, normVars, resolveVars, cobidVars, splitVars, flagVars,
          serviceVars>>

\* None, as dict.get returns it for a missing key or a JSON null. It is a
\* one-element tuple so that it can be compared with strings (tuples of
\* characters); no character is "<None>".
None == <<"<None>">>

-----------------------------------------------------------------------------
(* Characters and the str / re primitives the normalizers use.             *)

LowerCase == <<"a", "b", "c", "d", "e", "f", "g", "h", "i", "j", "k", "l", "m",
               "n", "o", "p", "q", "r", "s", "t", "u", "v", "w", "x", "y", "z">>
UpperCase == <<"A", "B", "C", "D", "E", "F", "G", "H", "I", "J", "K", "L", "M",
               "N", "O", "P", "Q", "R", "S", "T", "U", "V", "W", "X", "Y", "Z">>
Digits == {"0", "1", "2", "3", "4", "5", "6", "7", "8", "9"}

Range(f) == {f[i] : i \in DOMAIN f}

\* str.upper() on one character
UpperChar(c) ==
    IF \E i \in DOMAIN LowerCase : LowerCase[i] = c
    THEN UpperCase[CHOOSE i \in DOMAIN LowerCase : LowerCase[i] = c]
    ELSE c

\* str.upper()
Upper(s) == [i \in DOMAIN s |-> UpperChar(s[i])]

\* \s of re, and the characters str.strip() removes
IsSpace(c) == c \in {" ", "\t", "\n", "\r"}

\* \w of re
IsWord(c) == c \in Range(LowerCase) \cup Range(UpperCase) \cup Digits \cup {"_"}

\* str.strip()
Strip(s) ==
    LET keep == {i \in DOMAIN s : ~IsSpace(s[i])}
    IN  IF keep = {} THEN <<>>
        ELSE LET lo == CHOOSE i \in keep : \A j \in keep : i <= j
                 hi == CHOOSE i \in keep : \A j \in keep : j <= i
             IN  SubSeq(s, lo, hi)

\* \b at position i: between s[i-1] and s[i]
WordAt(s, i) == i \in DOMAIN s /\ IsWord(s[i])
Boundary(s, i) == WordAt(s, i - 1) # WordAt(s, i)

\* $ at position i: at the end, or just before a final newline
AtEnd(s, i) == i = Len(s) + 1 \/ (i = Len(s) /\ s[i] = "\n")

\* the literal lit occurs in s at position i
LitAt(s, i, lit) ==
    /\ i >= 1
    /\ i + Len(lit) - 1 <= Len(s)
    /\ \A k \in 1..Len(lit) : s[i + k - 1] = lit[k]

\* every character of s[i..j-1] is whitespace
AllSpace(s, i, j) == \A k \in i..(j - 1) : IsSpace(s[k])

\* A business suffix pattern \b head (\s* tail)? \.? $ : the tail is empty
\* when the pattern has no second word, dot says whether \.? is present.
Suffix(head, tail, dot) == [head |-> head, tail |-> tail, dot |-> dot]

\* normalize.py suffixes, in the order of the list
suffixes == <<
    Suffix(<<"I", "N", "C">>, <<>>, TRUE),
    Suffix(<<"C", "O", "R", "P">>, <<>>, TRUE),
    Suffix(<<"C", "O", "R", "P", "O", "R", "A", "T", "I", "O", "N">>, <<>>, FALSE),
    Suffix(<<"C", "O">>, <<>>, TRUE),
    Suffix(<<"C", "O", "M", "P", "A", "N", "Y">>, <<>>, FALSE),
    Suffix(<<"L", "T", "D">>, <<>>, TRUE),
    Suffix(<<"L", "I", "M", "I", "T", "E", "D">>, <<>>, FALSE),
    Suffix(<<"L", "L", "C">>, <<>>, FALSE),
    Suffix(<<"P", "T", "E">>, <<>>, TRUE),
    Suffix(<<"P", "V", "T">>, <<>>, TRUE),
    Suffix(<<"&">>, <<"C", "O">>, TRUE),
    Suffix(<<"A", "N", "D">>, <<"C", "O">>, TRUE) >>

\* The end (exclusive) of the match of pattern p that starts at i, 0 if none.
\* \s* is followed by a literal and \.? by $, so the match is unique.
SuffixMatchEnd(s, i, p) ==
    IF ~(Boundary(s, i) /\ LitAt(s, i, p.head)) THEN 0
    ELSE
      LET h  == i + Len(p.head)
          ks == IF p.tail = <<>> THEN {h}
                ELSE {k \in h..(Len(s) + 1) :
                        AllSpace(s, h, k) /\ LitAt(s, k, p.tail)}
          ends == {e \in 1..(Len(s) + 2) : \E k \in ks :
                     LET j == k + Len(p.tail)
                     IN  \/ (e = j /\ AtEnd(s, j))
                         \/ (p.dot /\ e = j + 1 /\ j <= Len(s) /\ s[j] = "."
                               /\ AtEnd(s, j + 1))}
      IN  IF ends = {} THEN 0 ELSE CHOOSE e \in ends : TRUE

\* re.sub(suffix, "", s): the leftmost match is removed; what follows it is
\* at most a final newline, which no pattern matches.
ReSubSuffix(s, p) ==
    LET starts == {i \in 1..(Len(s) + 1) : SuffixMatchEnd(s, i, p) # 0}
    IN  IF starts = {} THEN s
        ELSE LET i == CHOOSE x \in starts : \A y \in starts : x <= y
                 e == SuffixMatchEnd(s, i, p)
             IN  SubSeq(s, 1, i - 1) \o SubSeq(s, e, Len(s))

RECURSIVE ApplySuffixes(_, _)
\* for suffix in suffixes: normalized = re.sub(suffix, "", normalized)
ApplySuffixes(s, k) ==
    IF k > Len(suffixes) THEN s
    ELSE ApplySuffixes(ReSubSuffix(s, suffixes[k]), k + 1)

IsNotPunct(c) == c \notin {".", ",", ";", ":"}

\* re.sub(r"[.,;:]", "", s)
RemovePunct(s) == SelectSeq(s, IsNotPunct)

RECURSIVE CollapseFrom(_, _)
CollapseFrom(s, i) ==
    IF i > Len(s) THEN <<>>
    ELSE IF IsSpace(s[i])
         THEN IF i > 1 /\ IsSpace(s[i - 1]) THEN CollapseFrom(s, i + 1)
              ELSE <<" ">> \o CollapseFrom(s, i + 1)
         ELSE <<s[i]>> \o CollapseFrom(s, i + 1)

\* re.sub(r"\s+", " ", s)
CollapseSpace(s) == CollapseFrom(s, 1)

normalize_contractor_name(name) ==
    IF name = None \/ name = <<>> THEN <<>>
    ELSE Strip(CollapseSpace(RemovePunct(ApplySuffixes(Strip(Upper(name)), 1))))

-----------------------------------------------------------------------------
(* normalize_politician_name                                               *)

\* normalize.py generational suffixes, in the order of the list
pol_suffixes == <<
    <<",", " ", "J", "R", ".">>,
    <<",", " ", "S", "R", ".">>,
    <<",", " ", "I", "I", "I">>,
    <<",", " ", "I", "I">>,
    <<",", " ", "I", "V">>,
    <<" ", "J", "R", ".">>,
    <<" ", "S", "R", ".">>,
    <<" ", "I", "I", "I">>,
    <<" ", "I", "I">>,
    <<" ", "I", "V">> >>

RECURSIVE ReplaceFrom(_, _, _)
ReplaceFrom(s, i, lit) ==
    IF i > Len(s) THEN <<>>
    ELSE IF LitAt(s, i, lit) THEN ReplaceFrom(s, i + Len(lit), lit)
         ELSE <<s[i]>> \o ReplaceFrom(s, i + 1, lit)

\* str.replace(lit, ""): every non-overlapping occurrence, left to right
StrRemove(s, lit) == ReplaceFrom(s, 1, lit)

RECURSIVE ApplyPolSuffixes(_, _)
ApplyPolSuffixes(s, k) ==
    IF k > Len(pol_suffixes) THEN s
    ELSE ApplyPolSuffixes(StrRemove(s, pol_suffixes[k]), k + 1)

\* A particle pattern \b w1 \s+ (w2 \s+)? and its replacement
Particle(w1, w2, repl) == [w1 |-> w1, w2 |-> w2, repl |-> repl]

particles == <<
    Particle(<<"D", "E">>, <<"L", "A">>, <<"D", "E", "L", "A", " ">>),
    Particle(<<"D", "E">>, <<"L", "O", "S">>, <<"D", "E", "L", "O", "S", " ">>),
    Particle(<<"D", "E">>, <<"L", "A", "S">>, <<"D", "E", "L", "A", "S", " ">>),
    Particle(<<"D", "E", "L">>, <<>>, <<"D", "E", "L", " ">>) >>

\* the end (exclusive) of the maximal run of whitespace that starts at i
SpaceRunEnd(s, i) ==
    CHOOSE j \in i..(Len(s) + 1) :
        AllSpace(s, i, j) /\ (j = Len(s) + 1 \/ ~IsSpace(s[j]))

\* The end (exclusive) of the match of particle p that starts at i, 0 if none
ParticleMatchEnd(s, i, p) ==
    IF ~(Boundary(s, i) /\ LitAt(s, i, p.w1)) THEN 0
    ELSE LET a == i + Len(p.w1)
             b == SpaceRunEnd(s, a)
         IN  IF b = a THEN 0
             ELSE IF p.w2 = <<>> THEN b
             ELSE IF ~LitAt(s, b, p.w2) THEN 0
             ELSE LET c == b + Len(p.w2)
                      d == SpaceRunEnd(s, c)
                  IN  IF d = c THEN 0 ELSE d

RECURSIVE ReSubParticleFrom(_, _, _)
ReSubParticleFrom(s, i, p) ==
    IF i > Len(s) THEN <<>>
    ELSE LET e == ParticleMatchEnd(s, i, p)
         IN  IF e # 0 THEN p.repl \o ReSubParticleFrom(s, e, p)
             ELSE <<s[i]>> \o ReSubParticleFrom(s, i + 1, p)

\* re.sub(pattern, replacement, s)
ReSubParticle(s, p) == ReSubParticleFrom(s, 1, p)

RECURSIVE ApplyParticles(_, _)
ApplyParticles(s, k) ==
    IF k > Len(particles) THEN s
    ELSE ApplyParticles(ReSubParticle(s, particles[k]), k + 1)

normalize_politician_name(name) ==
    IF name = None \/ name = <<>> THEN <<>>
    ELSE Strip(CollapseSpace(ApplyParticles(
             ApplyPolSuffixes(Strip(Upper(name)), 1), 1)))


-----------------------------------------------------------------------------
(* Normalizing a name and then normalizing the result.                     *)

MaxFrags == 4

\* The pieces the input names are put together from.
ContractorFrags == <<
    <<"A", "b", " ">>, <<"C", "o", ".">>, <<",", " ">>, <<"I", "n", "c", ".">>,
    <<"I", "N", "C">>, <<" ">>, <<".">>, <<"&">> >>
PoliticianFrags == <<
    <<"A">>, <<" ">>, <<"\t">>, <<"J", "R", ".">>, <<",">>, <<"I", "I">>,
    <<"D", "E">>, <<"L", "A">> >>

RECURSIVE Join(_, _)
Join(pool, ix) ==
    IF ix = <<>> THEN <<>> ELSE pool[Head(ix)] \o Join(pool, Tail(ix))

NamesFrom(pool) ==
    {Join(pool, ix) : ix \in UNION {[1..n -> DOMAIN pool] : n \in 0..MaxFrags}}

Normalize(kind, name) ==
    IF kind = "contractor" THEN normalize_contractor_name(name)
    ELSE normalize_politician_name(name)

\* what the normalization steps leave alone
NormOthers == <<detectVars, resolveVars, cobidVars, splitVars, flagVars,
    serviceVars>>

NormInit ==
    /\ nm_pc = "start"
    /\ nm_kind \in {"contractor", "politician"}
    /\ nm_name \in IF nm_kind = "contractor" THEN NamesFrom(ContractorFrags)
                   ELSE NamesFrom(PoliticianFrags)
    /\ nm_once = <<>>
    /\ nm_twice = <<>>

NormalizeOnce ==
    /\ nm_pc = "start"
    /\ nm_once' = Normalize(nm_kind, nm_name)
    /\ nm_pc' = "once"
    /\ UNCHANGED <<nm_kind, nm_name, nm_twice>>
    /\ UNCHANGED NormOthers

NormalizeTwice ==
    /\ nm_pc = "once"
    /\ nm_twice' = Normalize(nm_kind, nm_once)
    /\ nm_pc' = "twice"
    /\ UNCHANGED <<nm_kind, nm_name, nm_once>>
    /\ UNCHANGED NormOthers

NormIdle ==
    /\ nm_pc = "idle"
    /\ nm_kind = "contractor"
    /\ nm_name = <<>>
    /\ nm_once = <<>>
    /\ nm_twice = <<>>

NormNext == NormalizeOnce \/ NormalizeTwice


-----------------------------------------------------------------------------
(* jellyfish.jaro_winkler_similarity, in exact rational arithmetic.        *)

Min(a, b) == IF a <= b THEN a ELSE b
Max(a, b) == IF a >= b THEN a ELSE b

RECURSIVE GCD(_, _)
GCD(a, b) == IF b = 0 THEN a ELSE GCD(b, a % b)

\* the fraction n/d in lowest terms
Frac(n, d) == LET g == GCD(n, d) IN [n |-> n \div g, d |-> d \div g]

FracGE(f, g) == f.n * g.d >= g.n * f.d
FracLT(f, g) == ~FracGE(f, g)

RECURSIVE MatchFlags(_, _, _, _, _)
\* The matching pass: each character of s1, in order, takes the first
\* unmatched equal character of s2 within the search range. f1 and f2 are
\* the matched positions of s1 and s2.
MatchFlags(s1, s2, i, f1, f2) ==
    IF i > Len(s1) THEN <<f1, f2>>
    ELSE LET range == Max(0, (Max(Len(s1), Len(s2)) \div 2) - 1)
             cand == {j \in Max(1, i - range)..Min(i + range, Len(s2)) :
                        j \notin f2 /\ s2[j] = s1[i]}
         IN  IF cand = {} THEN MatchFlags(s1, s2, i + 1, f1, f2)
             ELSE LET j == CHOOSE x \in cand : \A y \in cand : x <= y
                  IN  MatchFlags(s1, s2, i + 1, f1 \cup {i}, f2 \cup {j})

RECURSIVE Flagged(_, _, _)
\* the characters of s at the positions f, in order
Flagged(s, f, i) ==
    IF i > Len(s) THEN <<>>
    ELSE IF i \in f THEN <<s[i]>> \o Flagged(s, f, i + 1)
         ELSE Flagged(s, f, i + 1)

RECURSIVE CommonPrefix(_, _, _, _)
CommonPrefix(s1, s2, i, limit) ==
    IF i < limit /\ s1[i + 1] = s2[i + 1]
    THEN CommonPrefix(s1, s2, i + 1, limit)
    ELSE i

jaro_winkler_similarity(s1, s2) ==
    IF Len(s1) = 0 \/ Len(s2) = 0 THEN Frac(0, 1)
    ELSE
      LET fl == MatchFlags(s1, s2, 1, {}, {})
          m  == Cardinality(fl[1])
      IN  IF m = 0 THEN Frac(0, 1)
          ELSE
            LET c1 == Flagged(s1, fl[1], 1)
                c2 == Flagged(s2, fl[2], 1)
                t  == Cardinality({k \in 1..m : c1[k] # c2[k]}) \div 2
                l1 == Len(s1)
                l2 == Len(s2)
                \* weight = (m/l1 + m/l2 + (m - t)/m) / 3 = wn / wd
                wn == m * m * l2 + m * m * l1 + (m - t) * l1 * l2
                wd == 3 * l1 * l2 * m
                w  == Frac(wn, wd)
            IN  IF 10 * w.n > 7 * w.d
                THEN LET p == CommonPrefix(s1, s2, 0, Min(Min(l1, l2), 4))
                     \* weight + p * 0.1 * (1 - weight)
                     IN  Frac(10 * w.n + p * (w.d - w.n), 10 * w.d)
                ELSE w

-----------------------------------------------------------------------------
(* The entity resolver: fuzzy_match_contractors, merge_entities,           *)
(* apply_merge_map. A contractor record is modelled by its raw name: the   *)
(* pipeline builds each record as {contractor_name: name, name: name}.     *)

FUZZY_MATCH_THRESHOLD_AUTO == Frac(92, 100)
FUZZY_MATCH_THRESHOLD_REVIEW == Frac(85, 100)

RECURSIVE PairsFrom(_, _, _)
\* for i in range(n): for j in range(i + 1, n), in that order
PairsFrom(i, j, n) ==
    IF i > n THEN <<>>
    ELSE IF j > n THEN PairsFrom(i + 1, i + 2, n)
         ELSE <<<<i, j>>>> \o PairsFrom(i, j + 1, n)

Match(r1, r2, sim) == [record1 |-> r1, record2 |-> r2, similarity |-> sim]

\* list.sort(key=similarity, reverse=True) puts x after the matches whose
\* similarity is >= its own: the sort is stable.
InsertDesc(sorted, x) ==
    LET before == {k \in DOMAIN sorted :
                     FracGE(sorted[k].similarity, x.similarity)}
        n == Cardinality(before)
    IN  SubSeq(sorted, 1, n) \o <<x>> \o SubSeq(sorted, n + 1, Len(sorted))

RECURSIVE SortDesc(_, _)
SortDesc(seq, k) ==
    IF k = 0 THEN <<>> ELSE InsertDesc(SortDesc(seq, k - 1), seq[k])

\* the similarity test of fuzzy_match_contractors
AboveThreshold(similarity, threshold) == FracGE(similarity, threshold)

fuzzy_match_contractors(records, threshold) ==
    LET normalized_names ==
            [i \in DOMAIN records |-> normalize_contractor_name(records[i])]
        Keep(p) ==
            LET name1 == normalized_names[p[1]]
                name2 == normalized_names[p[2]]
            IN  /\ name1 # <<>>
                /\ name2 # <<>>
                /\ name1 # name2
                /\ AboveThreshold(jaro_winkler_similarity(name1, name2),
                                  threshold)
        kept == SelectSeq(PairsFrom(1, 2, Len(records)), Keep)
        found == [k \in DOMAIN kept |->
                    Match(records[kept[k][1]], records[kept[k][2]],
                          jaro_winkler_similarity(
                              normalized_names[kept[k][1]],
                              normalized_names[kept[k][2]]))]
    IN  SortDesc(found, Len(found))

\* merge_entities: the canonical name of an auto-merged pair, and the other
CanonicalOf(name1, name2) == IF Len(name1) >= Len(name2) THEN name1 ELSE name2
OtherOf(name1, name2) ==
    IF CanonicalOf(name1, name2) = name1 THEN name2 ELSE name1

\* merge_map[other] = canonical
SetKey(map, key, value) ==
    [k \in DOMAIN map \cup {key} |-> IF k = key THEN value ELSE map[k]]

EmptyMerge == [auto_merged |-> <<>>, review_required |-> <<>>,
               merge_map |-> <<>>]

MatchInfo(m) == [name1 |-> m.record1, name2 |-> m.record2,
                 similarity |-> m.similarity]

RECURSIVE MergeFrom(_, _, _, _)
\* the loop of merge_entities over matches[k..]
MergeFrom(ms, k, threshold, acc) ==
    IF k > Len(ms) THEN acc
    ELSE LET name1 == ms[k].record1
             name2 == ms[k].record2
         IN  IF FracGE(ms[k].similarity, threshold)
             THEN MergeFrom(ms, k + 1, threshold,
                    [acc EXCEPT
                       !.merge_map = SetKey(@, OtherOf(name1, name2),
                                            CanonicalOf(name1, name2)),
                       !.auto_merged = Append(@, MatchInfo(ms[k]))])
             ELSE MergeFrom(ms, k + 1, threshold,
                    [acc EXCEPT
                       !.review_required = Append(@, MatchInfo(ms[k]))])

merge_entities(ms, confidence_threshold) ==
    MergeFrom(ms, 1, confidence_threshold, EmptyMerge)

\* A record of apply_merge_map: its name field and the original_name it
\* leaves behind (None while the record was never renamed).
Record(name) == [contractor_name |-> name, original_name |-> None]

apply_merge_map(records, merge_map) ==
    [i \in DOMAIN records |->
        IF records[i].contractor_name \in DOMAIN merge_map
        THEN [contractor_name |-> merge_map[records[i].contractor_name],
              original_name |-> records[i].contractor_name]
        ELSE records[i]]


-----------------------------------------------------------------------------
(* pipeline.py transform --normalize: the unique contractor names of the   *)
(* contracts file, fuzzy_match_contractors and merge_entities with their   *)
(* default thresholds; then apply_merge_map on the contractor records.     *)

MaxContractors == 3

\* "ABC Construction Inc." and "ABC CONSTRUCTION INCORPORATED"
AbcInc == <<"A", "B", "C", " ", "C", "o", "n", "s", "t", "r", "u", "c", "t",
            "i", "o", "n", " ", "I", "n", "c", ".">>
AbcIncorporated == <<"A", "B", "C", " ", "C", "O", "N", "S", "T", "R", "U", "C",
                     "T", "I", "O", "N", " ", "I", "N", "C", "O", "R", "P", "O",
                     "R", "A", "T", "E", "D">>
AbcConstruction == <<"A", "B", "C", " ", "C", "O", "N", "S", "T", "R", "U", "C",
                     "T", "I", "O", "N">>

\* The contractor_name values a contracts row may carry.
NamePool == {
    <<"A", "B", "C", "D">>,
    <<"A", "B", "C", "D", "E", "F">>,
    <<"A", "B", "C", "D", "E", "G">>,
    <<"A", "B", "C", "D", "E", "F", "G", "H">>,
    <<"A", "B", "C", "D", "X", "Y">>,
    <<"X", "Y", "Z">>,
    <<"A", "b", "c", "d", " ", "I", "n", "c", ".">>,
    <<"I", "n", "c", ".">>,
    AbcInc,
    AbcIncorporated }

ResolveOthers == <<detectVars, normVars, cobidVars, splitVars, flagVars,
    serviceVars>>

ResolveInit ==
    /\ rs_pc = "collect"
    /\ contractor_list = <<>>
    /\ matches = <<>>
    /\ merge_results = EmptyMerge
    /\ rs_records = <<>>
    /\ rs_prev = <<>>

ResolveIdle ==
    /\ rs_pc = "idle"
    /\ contractor_list = <<>>
    /\ matches = <<>>
    /\ merge_results = EmptyMerge
    /\ rs_records = <<>>
    /\ rs_prev = <<>>

\* One row of the contracts file: its name joins the contractors when it is
\* not empty and not yet there.
ReadContract(name) ==
    /\ rs_pc = "collect"
    /\ Len(contractor_list) < MaxContractors
    /\ contractor_list' =
          IF name # None /\ name # <<>> /\ name \notin Range(contractor_list)
          THEN Append(contractor_list, name)
          ELSE contractor_list
    /\ UNCHANGED <<rs_pc, matches, merge_results, rs_records, rs_prev>>
    /\ UNCHANGED ResolveOthers

\* matches = fuzzy_match_contractors(contractor_list)
\* merge_results = merge_entities(matches)
transform_normalize ==
    /\ rs_pc = "collect"
    /\ matches' = fuzzy_match_contractors(contractor_list,
                                          FUZZY_MATCH_THRESHOLD_AUTO)
    /\ merge_results' = merge_entities(matches', FUZZY_MATCH_THRESHOLD_AUTO)
    /\ rs_records' = [i \in DOMAIN contractor_list |->
                         Record(contractor_list[i])]
    /\ rs_prev' = rs_records'
    /\ rs_pc' = "merged"
    /\ UNCHANGED contractor_list
    /\ UNCHANGED ResolveOthers

\* apply_merge_map(records, merge_map), a first and a second time
ApplyMergeMap ==
    /\ rs_pc \in {"merged", "applied"}
    /\ rs_prev' = rs_records
    /\ rs_records' = apply_merge_map(rs_records, merge_results.merge_map)
    /\ rs_pc' = IF rs_pc = "merged" THEN "applied" ELSE "applied2"
    /\ UNCHANGED <<contractor_list, matches, merge_results>>
    /\ UNCHANGED ResolveOthers

ResolveNext ==
    \/ \E name \in NamePool \cup {None, <<>>} : ReadContract(name)
    \/ transform_normalize
    \/ ApplyMergeMap

-----------------------------------------------------------------------------
(* RedFlagService.detect_all: thirteen awaits in the order of the dict     *)
(* display. A detector returns its findings or raises what the store       *)
(* session raised; a finding is modelled by its type tag.                  *)

MaxFindings == 1

Detector(key, type) == [key |-> key, type |-> type]

\* the keys of detect_all and the type each detector gives its findings
detectors == <<
    Detector("single_bidder", "single_bidder"),
    Detector("identical_bids", "identical_bid_amounts"),
    Detector("split_contracts", "split_contracts"),
    Detector("concentration", "concentration"),
    Detector("rotating_winners", "rotating_winners"),
    Detector("political_connections", "political_connection"),
    Detector("geographic_anomaly", "geographic_anomaly"),
    Detector("shell_company", "shell_company"),
    Detector("phoenix_company", "phoenix_company"),
    Detector("campaign_connection", "campaign_connection"),
    Detector("circular_flow", "circular_flow"),
    Detector("timing_cluster", "timing_cluster"),
    Detector("shell_network", "shell_network") >>

DetectorKeys == {detectors[i].key : i \in DOMAIN detectors}

DetectOthers == <<normVars, resolveVars, cobidVars, splitVars, flagVars,
    serviceVars>>

DetectInit ==
    /\ da_pc = 1
    /\ da_result = <<>>
    /\ da_status = "running"

DetectIdle ==
    /\ da_pc = 0
    /\ da_result = <<>>
    /\ da_status = "idle"

\* await self.<detector>() returns n findings
DetectorReturns(n) ==
    /\ da_status = "running"
    /\ da_pc \in DOMAIN detectors
    /\ da_result' = SetKey(da_result, detectors[da_pc].key,
                           [k \in 1..n |-> detectors[da_pc].type])
    /\ da_pc' = da_pc + 1
    /\ UNCHANGED da_status
    /\ UNCHANGED DetectOthers

\* await self.<detector>() raises: detect_all has no handler, the dict under
\* construction is dropped and the exception leaves detect_all.
DetectorRaises ==
    /\ da_status = "running"
    /\ da_pc \in DOMAIN detectors
    /\ da_status' = "raised"
    /\ da_result' = <<>>
    /\ UNCHANGED da_pc
    /\ UNCHANGED DetectOthers

\* the dict display is complete: return it
detect_all_return ==
    /\ da_status = "running"
    /\ da_pc = Len(detectors) + 1
    /\ da_status' = "returned"
    /\ UNCHANGED <<da_pc, da_result>>
    /\ UNCHANGED DetectOthers

DetectNext ==
    \/ \E n \in 0..MaxFindings : DetectorReturns(n)
    \/ DetectorRaises
    \/ detect_all_return


-----------------------------------------------------------------------------
(* derive_co_bidding. The first loop takes the rows of the batch one at a  *)
(* time; cb_rows is the set of rows taken so far. A reference_number of 0  *)
(* and a contractor_name of "" stand for the falsy values (missing key,    *)
(* null, empty) that the guard of the loop rejects.                        *)

MaxRefs == 5
MaxRefsC == 2

CoBidders == {"A", "B", "C"}

Row(ref, name) == [reference_number |-> ref, contractor_name |-> name]

\* the rows a batch may hold: A and B on every reference, C on the first
\* MaxRefsC of them, a row without reference_number and a row without
\* contractor_name
CoBidRowPool ==
    {Row(r, c) : r \in 1..MaxRefs, c \in {"A", "B"}}
        \cup {Row(r, "C") : r \in 1..MaxRefsC}
        \cup {Row(0, "A"), Row(1, "")}

\* sorted([x, y]) on one-letter names
Ord(c) == CHOOSE i \in DOMAIN UpperCase : UpperCase[i] = c
PairKey(x, y) == IF Ord(x) <= Ord(y) THEN <<x, y>> ELSE <<y, x>>

\* if contract_ref and contractor
RowAccepted(row) == row.reference_number # 0 /\ row.contractor_name # ""

\* contract_bidders[contract_ref].add(contractor)
AddBidder(cb, row) ==
    [r \in DOMAIN cb \cup {row.reference_number} |->
        IF r = row.reference_number
        THEN (IF r \in DOMAIN cb THEN cb[r] ELSE {}) \cup {row.contractor_name}
        ELSE cb[r]]

\* The pairs of one contract: list(bidders) has no specified order, the
\* sorted tuple makes the key independent of it.
PairsOfContract(bidders) ==
    IF Cardinality(bidders) < 2 THEN {}
    ELSE {PairKey(q[1], q[2]) : q \in {p \in bidders \X bidders : p[1] # p[2]}}

\* co_bidding_pairs: every pair of some contract, with the number of
\* contracts it occurs in
co_bidding_pairs(cb) ==
    LET keys == UNION {PairsOfContract(cb[r]) : r \in DOMAIN cb}
    IN  [pair \in keys |->
            Cardinality({r \in DOMAIN cb : pair \in PairsOfContract(cb[r])})]

\* an edge for every pair that shares a single contract
EmitsEdgeOnce(count) == count >= 1

\* if count >= 2
EmitsEdge(count) == count >= 2

\* a strict comparison at the frequent boundary
PatternStrict(count) == IF count > 5 THEN "frequent" ELSE "occasional"

\* "frequent" if count >= 5 else "occasional"
Pattern(count) == IF count >= 5 THEN "frequent" ELSE "occasional"

\* the edge records; a set, since the order of the pairs is that of a dict
\* filled from set iteration
CoBidEdges(cb) ==
    LET pairs == co_bidding_pairs(cb)
    IN  {[from_contractor |-> pair[1], to_contractor |-> pair[2],
          contract_count |-> pairs[pair], pattern |-> Pattern(pairs[pair])] :
            pair \in {q \in DOMAIN pairs : EmitsEdge(pairs[q])}}

CoBidOthers == <<detectVars, normVars, resolveVars, splitVars, flagVars,
    serviceVars>>

CoBidInit ==
    /\ cb_pc = "reading"
    /\ cb_rows = {}
    /\ contract_bidders = <<>>
    /\ cb_edges = {}

CoBidIdle ==
    /\ cb_pc = "idle"
    /\ cb_rows = {}
    /\ contract_bidders = <<>>
    /\ cb_edges = {}

\* one iteration of: for contract in contracts
CoBidRead(row) ==
    /\ cb_pc = "reading"
    /\ cb_rows' = cb_rows \cup {row}
    /\ contract_bidders' = IF RowAccepted(row)
                           THEN AddBidder(contract_bidders, row)
                           ELSE contract_bidders
    /\ UNCHANGED <<cb_pc, cb_edges>>
    /\ UNCHANGED CoBidOthers

\* the rest of derive_co_bidding, once the batch is exhausted
derive_co_bidding ==
    /\ cb_pc = "reading"
    /\ cb_edges' = CoBidEdges(contract_bidders)
    /\ cb_pc' = "done"
    /\ UNCHANGED <<cb_rows, contract_bidders>>
    /\ UNCHANGED CoBidOthers

CoBidNext ==
    \/ \E row \in CoBidRowPool : CoBidRead(row)
    \/ derive_co_bidding


-----------------------------------------------------------------------------
(* derive_split_contracts on a batch of contract records.                  *)

MaxContracts == 3

\* An amount: a number, or a string that is no number ("str"); the number
\* 0 also stands for a missing or null amount, which is as falsy.
Num(v) == [t |-> "num", v |-> v]
BadAmount == [t |-> "str", v |-> 0]

\* An award_date: an ISO date string, a string that is no date ("bad"),
\* null ("null"), or a record without the key ("missing").
Iso(y, m, d) == [t |-> "iso", y |-> y, m |-> m, d |-> d]
NullDate == [t |-> "null", y |-> 0, m |-> 0, d |-> 0]
MissingDate == [t |-> "missing", y |-> 0, m |-> 0, d |-> 0]
BadDate == [t |-> "bad", y |-> 0, m |-> 0, d |-> 0]

Contract(agency, amount, date) ==
    [procuring_entity |-> agency, amount |-> amount, award_date |-> date]

SplitAmounts == {20000, 35000, 50000, 80000}
SplitDates == {Iso(2024, 1, 1), Iso(2024, 1, 31), Iso(2024, 2, 1)}

\* the records a batch may hold: well-formed ones of two agencies, one near
\* the shopping threshold, and one record for each way of being malformed
SplitPool ==
    {Contract(g, Num(a), d) : g \in {"DPWH", "DOH"}, a \in SplitAmounts,
                              d \in SplitDates}
        \cup {Contract("DPWH", Num(1000000), Iso(2024, 1, 1)),
              Contract("DPWH", Num(50000), NullDate),
              Contract("DPWH", Num(50000), MissingDate),
              Contract("DPWH", Num(50000), BadDate),
              Contract("DPWH", Num(0), Iso(2024, 1, 1)),
              Contract("DPWH", BadAmount, Iso(2024, 1, 1)),
              Contract("", Num(50000), Iso(2024, 1, 1))}

\* THRESHOLDS
THRESHOLDS == <<50000, 1000000, 5000000>>

\* bool(amount): a number other than 0, or a non-empty string
AmountTruthy(a) == a.t = "str" \/ a.v # 0

\* bool(c.get("award_date")): a string
DateTruthy(d) == d.t \in {"iso", "bad"}

\* datetime.fromisoformat succeeds
DateParses(d) == d.t = "iso"

IsLeap(y) == (y % 4 = 0 /\ y % 100 # 0) \/ y % 400 = 0
DaysBeforeMonth(y, m) ==
    <<0, 31, 59, 90, 120, 151, 181, 212, 243, 273, 304, 334>>[m]
        + (IF m > 2 /\ IsLeap(y) THEN 1 ELSE 0)

\* datetime.fromisoformat(s) as a day number (date.toordinal)
fromisoformat(dt) ==
    LET y1 == dt.y - 1
    IN  365 * y1 + (y1 \div 4) - (y1 \div 100) + (y1 \div 400)
            + DaysBeforeMonth(dt.y, dt.m) + dt.d

Abs(x) == IF x < 0 THEN 0 - x ELSE x

\* The sort key c.get("award_date", "9999-12-31") as a number that orders
\* the strings as str does: YYYY-MM-DD by date, then "9999-12-31", then a
\* string that starts with a letter.
SortKey(c) ==
    IF c.award_date.t = "iso"
    THEN c.award_date.y * 10000 + c.award_date.m * 100 + c.award_date.d
    ELSE IF c.award_date.t = "missing" THEN 99991231
    ELSE 100000000

\* list.sort compares every element of a list of two or more: a key of None
\* raises TypeError.
SortRaises(list) ==
    Len(list) >= 2 /\ \E i \in DOMAIN list : list[i].award_date.t = "null"

InsertAsc(sorted, x) ==
    LET before == {k \in DOMAIN sorted : SortKey(sorted[k]) <= SortKey(x)}
        n == Cardinality(before)
    IN  SubSeq(sorted, 1, n) \o <<x>> \o SubSeq(sorted, n + 1, Len(sorted))

RECURSIVE SortAsc(_, _)
\* contracts_list.sort(key=award_date): stable
SortAsc(seq, k) ==
    IF k = 0 THEN <<>> ELSE InsertAsc(SortAsc(seq, k - 1), seq[k])

RECURSIVE AgenciesOf(_, _, _)
\* the keys of agency_contracts, in the order they were inserted
AgenciesOf(contracts, i, acc) ==
    IF i > Len(contracts) THEN acc
    ELSE LET g == contracts[i].procuring_entity
         IN  IF g = "" \/ g \in Range(acc) THEN AgenciesOf(contracts, i + 1, acc)
             ELSE AgenciesOf(contracts, i + 1, Append(acc, g))

\* A record of the batch with its position, which stands for the
\* reference_number the group reports.
Indexed(contracts) ==
    [i \in DOMAIN contracts |->
        [reference_number |-> i,
         procuring_entity |-> contracts[i].procuring_entity,
         amount |-> contracts[i].amount,
         award_date |-> contracts[i].award_date]]

\* agency_contracts[agency]
AgencyContracts(contracts, agency) ==
    LET OfAgency(c) == c.procuring_entity = agency
    IN  SelectSeq(Indexed(contracts), OfAgency)

\* 0.7 * threshold <= amount1 <= threshold, for some threshold
NearThreshold(amount) ==
    \E k \in DOMAIN THRESHOLDS :
        7 * THRESHOLDS[k] <= 10 * amount /\ amount <= THRESHOLDS[k]

\* abs((date2 - date1).days) <= 30
WithinWindow(date1, date2) ==
    Abs(fromisoformat(date2) - fromisoformat(date1)) <= 30

\* 0.5 * amount1 <= amount2 <= 2 * amount1
SimilarAmount(amount1, amount2) ==
    amount1 <= 2 * amount2 /\ amount2 <= 2 * amount1

\* contract1 passes the guards of the outer loop up to the threshold test
SeedReached(c1) ==
    /\ AmountTruthy(c1.amount)
    /\ DateTruthy(c1.award_date)
    /\ DateParses(c1.award_date)

\* the threshold test compares a float with a str: TypeError
SeedRaises(c1) == SeedReached(c1) /\ c1.amount.t = "str"

IsSeed(c1) ==
    SeedReached(c1) /\ c1.amount.t = "num" /\ NearThreshold(c1.amount.v)

\* contract2 passes the guards of the inner loop up to the amount test
MemberReached(c1, c2) ==
    /\ AmountTruthy(c2.amount)
    /\ DateTruthy(c2.award_date)
    /\ DateParses(c2.award_date)
    /\ WithinWindow(c1.award_date, c2.award_date)

MemberRaises(c1, c2) == MemberReached(c1, c2) /\ c2.amount.t = "str"

IsMember(c1, c2) ==
    /\ MemberReached(c1, c2)
    /\ c2.amount.t = "num"
    /\ SimilarAmount(c1.amount.v, c2.amount.v)

\* cluster = [contract1] + the similar contracts of contracts_list[i + 1:]
Cluster(list, i) ==
    LET Joins(c2) == IsMember(list[i], c2)
    IN  <<list[i]>> \o SelectSeq(SubSeq(list, i + 1, Len(list)), Joins)

RECURSIVE SumAmounts(_)
SumAmounts(cluster) ==
    IF cluster = <<>> THEN 0
    ELSE Head(cluster).amount.v + SumAmounts(Tail(cluster))

SplitGroup(agency, cluster) ==
    [agency |-> agency,
     contract_count |-> Len(cluster),
     total_amount |-> SumAmounts(cluster),
     contracts |-> [k \in DOMAIN cluster |->
                      [reference_number |-> cluster[k].reference_number,
                       amount |-> cluster[k].amount.v,
                       date |-> cluster[k].award_date]]]

\* if len(cluster) >= 2
ReportsCluster(cluster) == Len(cluster) >= 2

RECURSIVE GroupsOfAgency(_, _, _)
\* the outer loop over the sorted contracts of one agency
GroupsOfAgency(agency, list, i) ==
    IF i > Len(list) THEN <<>>
    ELSE IF IsSeed(list[i]) /\ ReportsCluster(Cluster(list, i))
         THEN <<SplitGroup(agency, Cluster(list, i))>>
                  \o GroupsOfAgency(agency, list, i + 1)
         ELSE GroupsOfAgency(agency, list, i + 1)

\* some statement of the loops over one agency raises
AgencyRaises(unsorted) ==
    \/ SortRaises(unsorted)
    \/ LET list == SortAsc(unsorted, Len(unsorted))
       IN  \E i \in DOMAIN list :
              \/ SeedRaises(list[i])
              \/ /\ IsSeed(list[i])
                 /\ \E j \in (i + 1)..Len(list) : MemberRaises(list[i], list[j])

RECURSIVE GroupsFrom(_, _, _)
GroupsFrom(contracts, agencies, k) ==
    IF k > Len(agencies) THEN <<>>
    ELSE LET unsorted == AgencyContracts(contracts, agencies[k])
         IN  GroupsOfAgency(agencies[k], SortAsc(unsorted, Len(unsorted)), 1)
                 \o GroupsFrom(contracts, agencies, k + 1)

\* derive_split_contracts(contracts): it raises, or returns split_groups
SplitRaises(contracts) ==
    \E g \in Range(AgenciesOf(contracts, 1, <<>>)) :
        AgencyRaises(AgencyContracts(contracts, g))

SplitGroups(contracts) ==
    GroupsFrom(contracts, AgenciesOf(contracts, 1, <<>>), 1)

SplitOthers == <<detectVars, normVars, resolveVars, cobidVars, flagVars,
    serviceVars>>

SplitInit ==
    /\ sp_pc = "loading"
    /\ sp_contracts = <<>>
    /\ split_groups = <<>>

SplitIdle ==
    /\ sp_pc = "idle"
    /\ sp_contracts = <<>>
    /\ split_groups = <<>>

\* pipeline.py: contracts.append(json.loads(line))
LoadContract(c) ==
    /\ sp_pc = "loading"
    /\ Len(sp_contracts) < MaxContracts
    /\ sp_contracts' = Append(sp_contracts, c)
    /\ UNCHANGED <<sp_pc, split_groups>>
    /\ UNCHANGED SplitOthers

\* split_contracts = derive_split_contracts(contracts)
derive_split_contracts ==
    /\ sp_pc = "loading"
    /\ IF SplitRaises(sp_contracts)
       THEN sp_pc' = "raised" /\ split_groups' = <<>>
       ELSE sp_pc' = "returned" /\ split_groups' = SplitGroups(sp_contracts)
    /\ UNCHANGED sp_contracts
    /\ UNCHANGED SplitOthers

SplitNext ==
    \/ \E c \in SplitPool : LoadContract(c)
    \/ derive_split_contracts

-----------------------------------------------------------------------------
(* The graph store and the queries of RedFlagService and Neo4jService. A   *)
(* node is its identifier; a relationship type is a set of pairs, since    *)
(* the loader MERGEs every relationship. graph holds the part of the store *)
(* a query reads, rf_args the arguments of the call, flags what it         *)
(* returned.                                                               *)

FlagOthers == <<detectVars, normVars, resolveVars, cobidVars, splitVars,
    serviceVars>>

FlagIdle ==
    /\ rf_pc = "idle"
    /\ rf_args = <<>>
    /\ graph = <<>>
    /\ flags = {}

\* the store before anything is loaded, and no query run
FlagInit(emptyGraph) ==
    /\ rf_pc = "loading"
    /\ rf_args = <<>>
    /\ graph = emptyGraph
    /\ flags = {}

\* session.run(query, args) returned and every record became a RedFlag
FlagsReturned(args, result) ==
    /\ rf_pc = "loading"
    /\ rf_pc' = "done"
    /\ rf_args' = args
    /\ flags' = result
    /\ UNCHANGED graph
    /\ UNCHANGED FlagOthers

\* the loader wrote to the store
GraphLoaded(newGraph) ==
    /\ rf_pc = "loading"
    /\ graph' = newGraph
    /\ UNCHANGED <<rf_pc, rf_args, flags>>
    /\ UNCHANGED FlagOthers

-----------------------------------------------------------------------------
(* Contracts with their agency and their contractor, as load_full_dataset  *)
(* writes them: a Contract node per record, a PROCURED relationship from   *)
(* its procuring_entity and an AWARDED_TO relationship to its contractor.  *)
(* A contract is identified by its reference_number, its position here.    *)

MaxFlagContracts == 3

Agencies == {"DPWH", "DOH"}
Contractors == {"X", "Y"}

NoContracts == [props |-> <<>>, PROCURED |-> {}, AWARDED_TO |-> {}]

\* MERGE the Contract node, then MERGE (a)-[:PROCURED]->(c) and
\* (c)-[:AWARDED_TO]->(con)
MergeContract(g, props, agency, contractor) ==
    LET c == Len(g.props) + 1
    IN  [g EXCEPT !.props = Append(g.props, props),
                  !.PROCURED = g.PROCURED \cup {<<agency, c>>},
                  !.AWARDED_TO = g.AWARDED_TO \cup {<<c, contractor>>}]

\* MATCH (a:Agency)-[:PROCURED]->(c:Contract)-[:AWARDED_TO]->(con:Contractor)
ProcuredAwarded(g) ==
    {<<q[1][1], q[1][2], q[2][2]>> :
        q \in {pw \in g.PROCURED \X g.AWARDED_TO : pw[1][2] = pw[2][1]}}

RECURSIVE SumOver(_, _)
\* sum(f(x)) over the rows S of a group
SumOver(S, f) ==
    IF S = {} THEN 0
    ELSE LET x == CHOOSE y \in S : TRUE IN f[x] + SumOver(S \ {x}, f)

\* WHERE c.amount < $threshold AND c.amount > $threshold * 0.7
JustBelow(amount, threshold) ==
    amount < threshold /\ 10 * amount > 7 * threshold

\* RedFlagService.split_contracts(threshold): the records of the query, each
\* made a RedFlag
split_contracts(g, threshold) ==
    LET rows == {r \in ProcuredAwarded(g) :
                    JustBelow(g.props[r[2]].amount, threshold)}
        Group(a, con) == {r \in rows : r[1] = a /\ r[3] = con}
        amount == [r \in rows |-> g.props[r[2]].amount]
    IN  {[type |-> "split_contracts",
          severity |-> "high",
          agency |-> k[1],
          contractor |-> k[2],
          num_contracts |-> Cardinality(Group(k[1], k[2])),
          total_value |-> SumOver(Group(k[1], k[2]), amount),
          contracts |-> {r[2] : r \in Group(k[1], k[2])}] :
         k \in {q \in {<<r[1], r[3]>> : r \in rows} :
                   Cardinality(Group(q[1], q[2])) >= 3}}

SplitFlagAmounts == {3000000, 3500000, 4600000, 4750000, 4900000, 5000000}
SplitFlagThresholds == {5000000, 4750000}

LoadSplitContract(amount, agency, contractor) ==
    /\ Len(graph.props) < MaxFlagContracts
    /\ GraphLoaded(MergeContract(graph, [amount |-> amount], agency,
                                 contractor))

RunSplitContracts(threshold) ==
    FlagsReturned([threshold |-> threshold],
                  split_contracts(graph, threshold))

SplitFlagNext ==
    \/ \E m \in SplitFlagAmounts : \E a \in Agencies : \E con \in Contractors :
          LoadSplitContract(m, a, con)
    \/ \E t \in SplitFlagThresholds : RunSplitContracts(t)

-----------------------------------------------------------------------------
(* timing_cluster: the award_date of a contract is a date of the store.    *)

\* duration.between(d1, d2) for d1 <= d2 within one year, as its months and
\* days components: whole months first, then the days that remain.
DurationBetween(d1, d2) ==
    LET months == (d2.m - d1.m) - (IF d2.d < d1.d THEN 1 ELSE 0)
        moved == Iso(d1.y, d1.m + months, d1.d)
    IN  [months |-> months, days |-> fromisoformat(d2) - fromisoformat(moved)]

\* abs(duration.between(c1.award_date, c2.award_date).days): the days
\* component, which leaves the whole months out. For the dates of
\* TimingDates the two orders of the arguments give opposite durations.
AbsDurationDays(d1, d2) ==
    IF fromisoformat(d1) <= fromisoformat(d2)
    THEN DurationBetween(d1, d2).days
    ELSE DurationBetween(d2, d1).days

\* RedFlagService.timing_cluster(days_threshold, min_contracts). contracts
\* is collect(DISTINCT c1) + collect(DISTINCT c2): a list, kept here as the
\* number of times it holds each contract.
timing_cluster(g, days_threshold, min_contracts) ==
    LET rows == {r \in ProcuredAwarded(g) \X ProcuredAwarded(g) :
                    /\ r[1][1] = r[2][1]
                    /\ r[1][3] = r[2][3]
                    /\ r[1][2] # r[2][2]
                    /\ AbsDurationDays(g.props[r[1][2]].award_date,
                                       g.props[r[2][2]].award_date)
                          <= days_threshold}
        Group(a, con) == {r \in rows : r[1][1] = a /\ r[1][3] = con}
        Firsts(a, con) == {r[1][2] : r \in Group(a, con)}
        Seconds(a, con) == {r[2][2] : r \in Group(a, con)}
        Listed2(a, con) ==
            [c \in Firsts(a, con) \cup Seconds(a, con) |->
                (IF c \in Firsts(a, con) THEN 1 ELSE 0)
                    + (IF c \in Seconds(a, con) THEN 1 ELSE 0)]
        Size(a, con) ==
            Cardinality(Firsts(a, con)) + Cardinality(Seconds(a, con))
    IN  {[type |-> "timing_cluster",
          severity |-> "high",
          agency |-> k[1],
          contractor |-> k[2],
          contract_count |-> Size(k[1], k[2]),
          contracts |-> Listed2(k[1], k[2])] :
         k \in {q \in {<<r[1][1], r[1][3]>> : r \in rows} :
                   Size(q[1], q[2]) >= min_contracts}}

TimingDates ==
    {Iso(2024, 1, 1), Iso(2024, 1, 2), Iso(2024, 1, 4), Iso(2024, 1, 20),
     Iso(2024, 2, 1)}

LoadTimedContract(date, agency, contractor) ==
    /\ Len(graph.props) < MaxFlagContracts
    /\ GraphLoaded(MergeContract(graph, [award_date |-> date], agency,
                                 contractor))

RunTimingCluster(days_threshold, min_contracts) ==
    FlagsReturned([days_threshold |-> days_threshold,
                   min_contracts |-> min_contracts],
                  timing_cluster(graph, days_threshold, min_contracts))

TimingNext ==
    \/ \E d \in TimingDates : \E a \in Agencies : \E con \in Contractors :
          LoadTimedContract(d, a, con)
    \/ \E d \in {0, 2} : \E m \in {2, 3} : RunTimingCluster(d, m)

-----------------------------------------------------------------------------
(* Numbers of the store. A property holds an Integer or a Float, and the   *)
(* / of the query language divides two Integers as integers; the amounts   *)
(* of one store are here all of the same kind.                             *)

NumberKinds == {"Integer", "Float"}

\* x / y for two non-negative numbers of the given kind, y > 0
Divide(kind, x, y) ==
    IF kind = "Integer" THEN Frac(x \div y, 1) ELSE Frac(x, y)

-----------------------------------------------------------------------------
(* identical_bid_amounts: BID_ON relationships with their bid_amount. The  *)
(* bidders are numbered in the order of their elementId.                   *)

MaxBidders == 3

BidContracts == {"K1", "K2"}
BidAmounts == {0, 1999, 2001, 2010}

NoBids(kind) == [numeric |-> kind, BID_ON |-> <<>>]

\* MERGE (con)-[r:BID_ON]->(c) SET r.bid_amount = amount
MergeBid(g, con, c, amount) ==
    [g EXCEPT !.BID_ON = [e \in DOMAIN g.BID_ON \cup {<<con, c>>} |->
                             IF e = <<con, c>> THEN amount ELSE g.BID_ON[e]]]

\* abs(b1.bid_amount - b2.bid_amount) / b1.bid_amount
Deviation(kind, bid1, bid2) == Divide(kind, Abs(bid1 - bid2), bid1)

\* RedFlagService.identical_bid_amounts(tolerance)
identical_bid_amounts(g, tolerance) ==
    LET rows == {r \in (DOMAIN g.BID_ON) \X (DOMAIN g.BID_ON) :
                    /\ r[1][2] = r[2][2]
                    /\ r[1][1] < r[2][1]
                    /\ g.BID_ON[r[1]] > 0
                    /\ g.BID_ON[r[2]] > 0
                    /\ FracLT(Deviation(g.numeric, g.BID_ON[r[1]],
                                        g.BID_ON[r[2]]), tolerance)}
    IN  {[type |-> "identical_bid_amounts",
          severity |-> "high",
          contract_ref |-> r[1][2],
          bidder1 |-> r[1][1],
          bidder2 |-> r[2][1],
          bid1 |-> g.BID_ON[r[1]],
          bid2 |-> g.BID_ON[r[2]],
          deviation |-> Deviation(g.numeric, g.BID_ON[r[1]], g.BID_ON[r[2]])] :
         r \in rows}

LoadBid(con, c, amount) ==
    /\ <<con, c>> \notin DOMAIN graph.BID_ON
    /\ GraphLoaded(MergeBid(graph, con, c, amount))

RunIdenticalBids(tolerance) ==
    FlagsReturned([tolerance |-> tolerance],
                  identical_bid_amounts(graph, tolerance))

IdenticalBidsNext ==
    \/ \E con \in 1..MaxBidders : \E c \in BidContracts :
          \E m \in BidAmounts : LoadBid(con, c, m)
    \/ RunIdenticalBids(Frac(1, 1000))

-----------------------------------------------------------------------------
(* geographic_anomaly: municipalities with their region, the agencies of   *)
(* a municipality (HAS_AGENCY) and the municipality of a contractor        *)
(* (LOCATED_IN). Agency "A4" has no municipality.                          *)

region == [m \in {"M1", "M2", "M3"} |-> IF m = "M3" THEN "VII" ELSE "NCR"]

GeoStore ==
    [props |-> <<>>, PROCURED |-> {}, AWARDED_TO |-> {}, LOCATED_IN |-> {},
     HAS_AGENCY |-> {<<"M1", "A1">>, <<"M2", "A2">>, <<"M3", "A3">>}]

GeoAgencies == {"A1", "A2", "A3", "A4"}

\* OPTIONAL MATCH (a)<-[:HAS_AGENCY]-(loc:Municipality)
\* WHERE loc IS NOT NULL AND home.region <> loc.region: the municipalities
\* that match, or the single binding loc = null when none does
OptionalLoc(g, a, home) ==
    LET found == {h[1] : h \in {e \in g.HAS_AGENCY :
                                   e[2] = a /\ region[home] # region[e[1]]}}
    IN  IF found = {} THEN {"null"} ELSE found

\* RedFlagService.geographic_anomaly
geographic_anomaly(g) ==
    LET rows == {r \in g.LOCATED_IN \X ProcuredAwarded(g) \X
                         (DOMAIN region \cup {"null"}) :
                    /\ r[1][1] = r[2][3]
                    /\ r[3] \in OptionalLoc(g, r[2][1], r[1][2])}
        \* WITH con, home, loc, count(c), sum(c.amount)
        Group(con, home, loc) ==
            {r \in rows : r[1][1] = con /\ r[1][2] = home /\ r[3] = loc}
        amount == [r \in rows |-> g.props[r[2][2]].amount]
        Summary(con, home, loc) ==
            [contractor |-> con, home |-> home, loc |-> loc,
             contracts_outside_region |-> Cardinality(Group(con, home, loc)),
             value_outside_region |-> SumOver(Group(con, home, loc), amount)]
        groups == {s \in {Summary(r[1][1], r[1][2], r[3]) : r \in rows} :
                      s.contracts_outside_region >= 3}
        \* RETURN ..., collect(DISTINCT loc.region): the groups that agree
        \* on the other columns are one record
        Same(s, t) ==
            /\ s.contractor = t.contractor
            /\ s.home = t.home
            /\ s.contracts_outside_region = t.contracts_outside_region
            /\ s.value_outside_region = t.value_outside_region
    IN  {[type |-> "geographic_anomaly",
          severity |-> "medium",
          contractor |-> s.contractor,
          home_municipality |-> s.home,
          home_region |-> region[s.home],
          award_regions |-> {region[t.loc] :
                                t \in {u \in groups :
                                          Same(s, u) /\ u.loc # "null"}},
          contracts_outside_region |-> s.contracts_outside_region,
          value_outside_region |-> s.value_outside_region] : s \in groups}

LoadLocatedIn(con, m) ==
    /\ <<con, m>> \notin graph.LOCATED_IN
    /\ GraphLoaded([graph EXCEPT !.LOCATED_IN = @ \cup {<<con, m>>}])

LoadGeoContract(amount, agency) ==
    /\ Len(graph.props) < MaxFlagContracts
    /\ GraphLoaded(MergeContract(graph, [amount |-> amount], agency, "X"))

RunGeographicAnomaly == FlagsReturned(<<>>, geographic_anomaly(graph))

GeographicNext ==
    \/ \E m \in {"M1", "M3"} : LoadLocatedIn("X", m)
    \/ \E m \in {100, 200} : \E a \in GeoAgencies : LoadGeoContract(m, a)
    \/ RunGeographicAnomaly

-----------------------------------------------------------------------------
(* campaign_connection: donations of contractor "X" to politicians, the    *)
(* municipalities the politicians govern, their agencies and the contracts *)
(* those awarded to "X". A donation is identified by its position.         *)

MaxDonations == 2

Politicians == {"P", "Q"}

CampaignStore ==
    [props |-> <<>>, PROCURED |-> {}, AWARDED_TO |-> {},
     donations |-> <<>>, DONATED_BY |-> {}, DONATED_TO |-> {}, GOVERNS |-> {},
     HAS_AGENCY |-> {<<"M1", "A1">>, <<"M3", "A3">>}]

\* (con)-[:DONATED_TO]->(cd:CampaignDonation)-[:DONATED_TO]->(pol)
MergeDonation(g, props, con, pol) ==
    LET cd == Len(g.donations) + 1
    IN  [g EXCEPT !.donations = Append(g.donations, props),
                  !.DONATED_BY = g.DONATED_BY \cup {<<con, cd>>},
                  !.DONATED_TO = g.DONATED_TO \cup {<<cd, pol>>}]

\* RedFlagService.campaign_connection
campaign_connection(g) ==
    LET \* MATCH (con)-[:DONATED_TO]->(cd)-[:DONATED_TO]->(pol)
        gifts == {<<b[1], b[2], t[2]>> :
                    <<b, t>> \in {q \in g.DONATED_BY \X g.DONATED_TO :
                                     q[1][2] = q[2][1]}}
        \* MATCH (pol)-[:GOVERNS]->(m)-[:HAS_AGENCY]->(a)-[:PROCURED]->(c)
        \*       -[:AWARDED_TO]->(con)
        rows == {r \in gifts \X g.GOVERNS \X g.HAS_AGENCY \X ProcuredAwarded(g) :
                    /\ r[2][1] = r[1][3]
                    /\ r[3][1] = r[2][2]
                    /\ r[4][1] = r[3][2]
                    /\ r[4][3] = r[1][1]}
        \* WITH con, pol, cd, a, collect(c) as contracts
        Group(k) == {r \in rows : <<r[1][1], r[1][3], r[1][2], r[4][1]>> = k}
        amount == [r \in rows |-> g.props[r[4][2]].amount]
    IN  {[type |-> "campaign_connection",
          severity |-> "high",
          contractor |-> k[1],
          politician |-> k[2],
          donation |-> k[3],
          donation_amount |-> g.donations[k[3]].amount,
          contracts_won |-> SumOver(Group(k), amount),
          contract_count |-> Cardinality(Group(k)),
          contracts |-> {r[4][2] : r \in Group(k)}] :
         k \in {<<r[1][1], r[1][3], r[1][2], r[4][1]>> : r \in rows}}

CampaignDates == {Iso(2024, 1, 1), Iso(2024, 1, 2), Iso(2024, 1, 3)}

LoadDonation(date, pol) ==
    /\ Len(graph.donations) < MaxDonations
    /\ GraphLoaded(MergeDonation(graph, [amount |-> 50, date |-> date],
                                 "X", pol))

LoadGoverns(pol, m) ==
    /\ <<pol, m>> \notin graph.GOVERNS
    /\ GraphLoaded([graph EXCEPT !.GOVERNS = @ \cup {<<pol, m>>}])

LoadCampaignContract(date, agency) ==
    /\ Len(graph.props) < MaxFlagContracts
    /\ GraphLoaded(MergeContract(graph,
                                 [amount |-> 100, award_date |-> date],
                                 agency, "X"))

RunCampaignConnection == FlagsReturned(<<>>, campaign_connection(graph))

CampaignNext ==
    \/ \E d \in CampaignDates : \E pol \in Politicians : LoadDonation(d, pol)
    \/ LoadGoverns("P", "M1")
    \/ LoadGoverns("Q", "M3")
    \/ \E d \in CampaignDates : \E a \in {"A1", "A3"} :
          LoadCampaignContract(d, a)
    \/ RunCampaignConnection

-----------------------------------------------------------------------------
(* single_bidder_contracts: contracts with their bid_count; a bid_count of *)
(* 0 stands for a contract without the property.                           *)

MaxBidCountContracts == 4

\* a contract counted although it had several bids
CountsAnyBid(bid_count) == bid_count >= 1

\* WHERE c.bid_count = 1
IsSingleBid(bid_count) == bid_count = 1

\* RedFlagService.single_bidder_contracts(threshold)
single_bidder_contracts(g, threshold) ==
    LET rows == {w \in g.AWARDED_TO : IsSingleBid(g.props[w[1]].bid_count)}
        Group(con) == {w \in rows : w[2] = con}
    IN  {[type |-> "single_bidder",
          severity |-> "medium",
          contractor |-> con,
          single_bid_count |-> Cardinality(Group(con)),
          contracts |-> {w[1] : w \in Group(con)}] :
         con \in {k \in {w[2] : w \in rows} :
                     Cardinality(Group(k)) >= threshold}}

LoadBidCountContract(bid_count, agency, contractor) ==
    /\ Len(graph.props) < MaxBidCountContracts
    /\ GraphLoaded(MergeContract(graph, [bid_count |-> bid_count], agency,
                                 contractor))

RunSingleBidder(threshold) ==
    FlagsReturned([threshold |-> threshold],
                  single_bidder_contracts(graph, threshold))

SingleBidderNext ==
    \/ \E b \in {0, 1, 3} : \E con \in Contractors :
          LoadBidCountContract(b, "DPWH", con)
    \/ \E t \in {2, 3} : RunSingleBidder(t)

-----------------------------------------------------------------------------
(* concentration and get_agency_concentration: the contracts of agency     *)
(* "DPWH" with their amount and contractor; agency "DOH" has no contract.  *)

ShareHolders == {"X", "Y", "Z"}
ValuedAmounts == {0, 10, 30, 60}

ValuedStore(kind) ==
    [numeric |-> kind, props |-> <<>>, PROCURED |-> {}, AWARDED_TO |-> {}]

FracAdd(f, g) == Frac(f.n * g.d + g.n * f.d, f.d * g.d)
FracMul(f, g) == Frac(f.n * g.n, f.d * g.d)

RECURSIVE FracSum(_, _)
\* sum(f(x)) over the rows S, for fractions
FracSum(S, f) ==
    IF S = {} THEN Frac(0, 1)
    ELSE LET x == CHOOSE y \in S : TRUE
         IN  FracAdd(f[x], FracSum(S \ {x}, f))

\* the share itself where its square is meant
NotSquared(share) == share

\* share * share
Squared(share) == FracMul(share, share)

\* WITH a, con, sum(c.amount) as contractor_total, count(c): the contractors
\* of agency a with the total and the number of their contracts
ContractorTotals(g, a) ==
    LET rows == {r \in ProcuredAwarded(g) : r[1] = a}
        amount == [r \in rows |-> g.props[r[2]].amount]
        Of(con) == {r \in rows : r[3] = con}
    IN  [con \in {r[3] : r \in rows} |->
            [value |-> SumOver(Of(con), amount),
             contracts |-> Cardinality(Of(con))]]

\* sum(contractor_total) as grand_total
GrandTotal(totals) ==
    SumOver(DOMAIN totals, [con \in DOMAIN totals |-> totals[con].value])

\* RedFlagService.concentration(hhi_threshold)
concentration(g, hhi_threshold) ==
    LET Report(a) ==
            LET totals == ContractorTotals(g, a)
                grand_total == GrandTotal(totals)
                \* (contractor.value / grand_total) as share
                share == [con \in DOMAIN totals |->
                             Divide(g.numeric, totals[con].value, grand_total)]
                squares == [con \in DOMAIN totals |-> Squared(share[con])]
            IN  [type |-> "concentration",
                 severity |-> "high",
                 agency |-> a,
                 hhi |-> FracSum(DOMAIN totals, squares),
                 total_value |-> grand_total,
                 top_contractors |->
                     {[name |-> con, share |-> share[con],
                       value |-> totals[con].value] : con \in DOMAIN totals}]
    IN  {Report(a) :
           a \in {b \in {r[1] : r \in ProcuredAwarded(g)} :
                     /\ GrandTotal(ContractorTotals(g, b)) > 0
                     /\ FracLT(hhi_threshold, Report(b).hhi)}}

\* Neo4jService.get_agency_concentration(agency_id), for an agency of the
\* store. An agency without contracts has the single row con = null, which
\* the final filter on the name drops.
get_agency_concentration(g, a) ==
    LET totals == ContractorTotals(g, a)
        grand_total == GrandTotal(totals)
        \* CASE WHEN grand_total > 0
        \*      THEN toFloat(contractor.value) / grand_total ELSE 0 END
        share == [con \in DOMAIN totals |->
                     IF grand_total > 0
                     THEN Divide("Float", totals[con].value, grand_total)
                     ELSE Frac(0, 1)]
        squares == [con \in DOMAIN totals |-> Squared(share[con])]
    IN  [agency |-> a,
         hhi |-> FracSum(DOMAIN totals, squares),
         top_contractors |->
             {[name |-> con, share |-> share[con],
               total_value |-> totals[con].value,
               contract_count |-> totals[con].contracts] :
              con \in DOMAIN totals},
         total_contracts |->
             SumOver(DOMAIN totals,
                     [con \in DOMAIN totals |-> totals[con].contracts]),
         total_value |-> grand_total]

LoadValuedContract(amount, contractor) ==
    /\ Len(graph.props) < MaxFlagContracts
    /\ GraphLoaded(MergeContract(graph, [amount |-> amount], "DPWH",
                                 contractor))

RunConcentration(hhi_threshold) ==
    FlagsReturned([threshold |-> hhi_threshold],
                  concentration(graph, hhi_threshold))

RunAgencyConcentration(agency_id) ==
    FlagsReturned([agency_id |-> agency_id],
                  get_agency_concentration(graph, agency_id))

ConcentrationNext ==
    \/ \E m \in ValuedAmounts : \E con \in ShareHolders :
          LoadValuedContract(m, con)
    \/ \E h \in {Frac(1, 4), Frac(1, 2)} : RunConcentration(h)

AgencyConcentrationNext ==
    \/ \E m \in ValuedAmounts : \E con \in ShareHolders :
          LoadValuedContract(m, con)
    \/ \E a \in Agencies : RunAgencyConcentration(a)

-----------------------------------------------------------------------------
(* circular_flow: the SUBCONTRACTED_TO relationships between contractors,  *)
(* one relationship at most from one contractor to another.                *)

MaxSubcontractors == 3
Subcontractors == 1..MaxSubcontractors

NoSubcontracts == [SUBCONTRACTED_TO |-> {}]

\* RedFlagService.circular_flow(): the two relationships of the MATCH
\* pattern are two different relationships; the relationship of the EXISTS
\* subquery is matched on its own.
circular_flow(g) ==
    LET E == g.SUBCONTRACTED_TO
        rows == {rr \in E \X E :
                    /\ rr[1] # rr[2]
                    /\ rr[1][2] = rr[2][1]
                    /\ \/ rr[1][1] = rr[2][2]
                       \/ <<rr[2][2], rr[1][1]>> \in E}
    IN  {[type |-> "circular_flow",
          severity |-> "critical",
          contractor1 |-> rr[1][1],
          contractor2 |-> rr[1][2],
          contractor3 |-> rr[2][2]] : rr \in rows}

LoadSubcontract(c, d) ==
    /\ <<c, d>> \notin graph.SUBCONTRACTED_TO
    /\ GraphLoaded([graph EXCEPT !.SUBCONTRACTED_TO = @ \cup {<<c, d>>}])

RunCircularFlow == FlagsReturned(<<>>, circular_flow(graph))

CircularNext ==
    \/ \E c, d \in Subcontractors : LoadSubcontract(c, d)
    \/ RunCircularFlow

-----------------------------------------------------------------------------
(* rotating_winners, political_connections, shell_company, phoenix_company *)
(* and shell_network. Contractors are numbered in the order of their       *)
(* elementId; a registered_capital of 0 stands for a null one, which the   *)
(* query rejects as it rejects 0.                                          *)

MaxFirms == 3
Firms == 1..MaxFirms

\* (a)-[:T]-(b), no direction: every relationship in both orientations
Either(E) == E \cup {<<e[2], e[1]>> : e \in E}

\* the contracts a join without its relationship would give
AnyContract(g, con) == DOMAIN g.props

\* MATCH (c:Contract)-[:AWARDED_TO]->(con)
MatchAwarded(g, con) == {c \in DOMAIN g.props : <<c, con>> \in g.AWARDED_TO}

\* count(con1) of OPTIONAL MATCH (con1:Contract)-[:AWARDED_TO]->(c1)
\* WHERE EXISTS { MATCH (c2)-[:BID_ON]->(con1) }
WinsAgainst(g, c1, c2) ==
    Cardinality({con \in MatchAwarded(g, c1) : <<c2, con>> \in DOMAIN g.BID_ON})

\* a row for every orientation of a relationship
BothWays(cb) == {<<cb, 1, 2>>, <<cb, 2, 1>>}

\* a row for the orientation in which the relationship was written only
OneWay(cb) == {<<cb, 1, 2>>}

\* MATCH (c1:Contractor)-[cb:CO_BID_WITH]-(c2:Contractor): the rows that one
\* relationship cb = <<from, to>> gives, as <<cb, position of c1, of c2>>
Undirected(cb) == BothWays(cb)

\* RedFlagService.rotating_winners(): CO_BID_WITH is a function from the
\* <<from, to>> of a relationship to its contract_count
rotating_winners(g) ==
    LET matched == UNION {Undirected(cb) :
                             cb \in {e \in DOMAIN g.CO_BID_WITH :
                                        g.CO_BID_WITH[e] >= 3}}
        Key(m) == <<m[1][m[2]], m[1][m[3]], g.CO_BID_WITH[m[1]]>>
        Rows(k) == {m \in matched : Key(m) = k}
        c1_wins(k) == Cardinality(Rows(k)) * WinsAgainst(g, k[1], k[2])
        c2_wins(k) == WinsAgainst(g, k[2], k[1])
    IN  {[type |-> "rotating_winners",
          severity |-> "high",
          contractor1_id |-> k[1],
          contractor2_id |-> k[2],
          co_bid_count |-> k[3],
          c1_wins |-> c1_wins(k),
          c2_wins |-> c2_wins(k)] :
         k \in {j \in {Key(m) : m \in matched} :
                   c1_wins(j) > 0 /\ c2_wins(j) > 0}}

\* RedFlagService.political_connections()
political_connections(g) ==
    {[type |-> "political_connection",
      severity |-> "high",
      contractor_id |-> r[1][1],
      person_name |-> r[1][2],
      politician_id |-> r[2][2]] :
     r \in {q \in g.OWNED_BY \X g.FAMILY_OF : q[1][2] = q[2][1]}}

\* RedFlagService.shell_company(ratio_threshold)
shell_company(g, ratio_threshold) ==
    LET amount == [c \in DOMAIN g.props |-> g.props[c].amount]
        total_awarded(con) == SumOver(MatchAwarded(g, con), amount)
        ratio(con) == Divide(g.numeric, total_awarded(con), g.capital[con])
    IN  {[type |-> "shell_company",
          severity |-> "high",
          contractor_id |-> con,
          capital |-> g.capital[con],
          total_awarded |-> total_awarded(con),
          ratio |-> ratio(con)] :
         con \in {c \in DOMAIN g.capital :
                     /\ g.capital[c] > 0
                     /\ MatchAwarded(g, c) # {}
                     /\ FracLT(ratio_threshold, ratio(c))}}

\* RedFlagService.phoenix_company()
phoenix_company(g) ==
    LET rows == {r \in g.BLACKLISTED \X Either(g.SHARES_DIRECTOR_WITH) :
                    /\ r[1][1] = r[2][1]
                    /\ r[2][2] \notin {b[1] : b \in g.BLACKLISTED}}
    IN  {[type |-> "phoenix_company",
          severity |-> "high",
          new_contractor_id |-> r[2][2],
          blacklisted_contractor_id |-> r[1][1],
          offense |-> r[1][2]] : r \in rows}

\* RedFlagService.shell_network()
shell_network(g) ==
    LET Between(E, c1, c2) == Cardinality(E \cap {<<c1, c2>>, <<c2, c1>>})
    IN  {[type |-> "shell_network",
          severity |-> "high",
          contractor1_id |-> p[1],
          contractor2_id |-> p[2],
          shared_directors |->
              Between(g.SAME_ADDRESS_AS, p[1], p[2])
                  * Between(g.SHARES_DIRECTOR_WITH, p[1], p[2])] :
         p \in {q \in Either(g.SAME_ADDRESS_AS) : q[1] < q[2]}}

-----------------------------------------------------------------------------
(* The thirteen detectors on a store with nodes and no relationship.       *)

MaxLooseContracts == 2

NodesOnly ==
    [numeric |-> "Float", props |-> <<>>, donations |-> <<>>,
     capital |-> [c \in Firms |-> 0],
     PROCURED |-> {}, AWARDED_TO |-> {}, BID_ON |-> <<>>, LOCATED_IN |-> {},
     HAS_AGENCY |-> {}, DONATED_BY |-> {}, DONATED_TO |-> {}, GOVERNS |-> {},
     SUBCONTRACTED_TO |-> {}, CO_BID_WITH |-> <<>>, OWNED_BY |-> {},
     FAMILY_OF |-> {}, BLACKLISTED |-> {}, SHARES_DIRECTOR_WITH |-> {},
     SAME_ADDRESS_AS |-> {}]

DetectorNames ==
    {"single_bidder_contracts", "identical_bid_amounts", "split_contracts",
     "concentration", "rotating_winners", "political_connections",
     "geographic_anomaly", "shell_company", "phoenix_company",
     "campaign_connection", "circular_flow", "timing_cluster",
     "shell_network"}

\* self.<name>() with the default arguments of its signature
Detect(name, g) ==
    CASE name = "single_bidder_contracts" -> single_bidder_contracts(g, 3)
      [] name = "identical_bid_amounts" ->
             identical_bid_amounts(g, Frac(1, 1000))
      [] name = "split_contracts" -> split_contracts(g, 5000000)
      [] name = "concentration" -> concentration(g, Frac(1, 4))
      [] name = "rotating_winners" -> rotating_winners(g)
      [] name = "political_connections" -> political_connections(g)
      [] name = "geographic_anomaly" -> geographic_anomaly(g)
      [] name = "shell_company" -> shell_company(g, Frac(100, 1))
      [] name = "phoenix_company" -> phoenix_company(g)
      [] name = "campaign_connection" -> campaign_connection(g)
      [] name = "circular_flow" -> circular_flow(g)
      [] name = "timing_cluster" -> timing_cluster(g, 2, 3)
      [] name = "shell_network" -> shell_network(g)

\* a Contract node
LoadContractNode(amount, bid_count, date) ==
    /\ Len(graph.props) < MaxLooseContracts
    /\ GraphLoaded([graph EXCEPT !.props =
           Append(@, [amount |-> amount, bid_count |-> bid_count,
                      award_date |-> date])])

\* a Contractor node with its registered_capital
LoadContractorNode(con, capital) ==
    /\ graph.capital[con] = 0
    /\ GraphLoaded([graph EXCEPT !.capital[con] = capital])

\* a CampaignDonation node
LoadDonationNode(date) ==
    /\ Len(graph.donations) < MaxDonations
    /\ GraphLoaded([graph EXCEPT !.donations =
           Append(@, [amount |-> 50, date |-> date])])

RunDetector(name) == FlagsReturned([detector |-> name], Detect(name, graph))

NodesOnlyNext ==
    \/ \E m \in {1000, 4000000} : LoadContractNode(m, 1, Iso(2024, 1, 1))
    \/ \E con \in Firms : LoadContractorNode(con, 1)
    \/ LoadDonationNode(Iso(2024, 1, 1))
    \/ \E name \in DetectorNames : RunDetector(name)

-----------------------------------------------------------------------------
(* get_contractor_profile: Contract nodes with the AWARDED_TO and BID_ON   *)
(* relationships of two contractors.                                       *)

MaxProfileContracts == 2

ProfileStore ==
    [props |-> [c \in 1..MaxProfileContracts |-> [amount |-> 10]],
     AWARDED_TO |-> {}, BID_ON |-> <<>>]

\* Neo4jService.get_contractor_profile(contractor_id), the basic query, for
\* a contractor of the store
get_contractor_profile(g, con) ==
    LET amount == [c \in DOMAIN g.props |-> g.props[c].amount]
        \* OPTIONAL MATCH (c:Contract)-[:AWARDED_TO]->(con): count(c) as wins
        wins == Cardinality(MatchAwarded(g, con))
        \* OPTIONAL MATCH (con)-[:BID_ON]->(b:Contract): count(b)
        total_bids == Cardinality({e \in DOMAIN g.BID_ON : e[1] = con})
    IN  [contractor_id |-> con,
         total_contracts |-> wins,
         total_value |-> SumOver(MatchAwarded(g, con), amount),
         \* CASE WHEN total_bids > 0 THEN toFloat(wins) / total_bids
         \*      ELSE 0.0 END
         win_rate |-> IF total_bids > 0
                      THEN Divide("Float", wins, total_bids)
                      ELSE Frac(0, 1)]

LoadAwardedTo(c, con) ==
    /\ <<c, con>> \notin graph.AWARDED_TO
    /\ GraphLoaded([graph EXCEPT !.AWARDED_TO = @ \cup {<<c, con>>}])

LoadBidOn(con, c) ==
    /\ <<con, c>> \notin DOMAIN graph.BID_ON
    /\ GraphLoaded(MergeBid(graph, con, c, 10))

RunContractorProfile(con) ==
    FlagsReturned([contractor_id |-> con], get_contractor_profile(graph, con))

ProfileNext ==
    \/ \E c \in 1..MaxProfileContracts : \E con \in 1..2 : LoadAwardedTo(c, con)
    \/ \E c \in 1..MaxProfileContracts : \E con \in 1..2 : LoadBidOn(con, c)
    \/ \E con \in 1..2 : RunContractorProfile(con)

-----------------------------------------------------------------------------
(* get_path: nodes numbered by their elementId and the relationships       *)
(* between them, of any type, as <<start node, end node>>. The response    *)
(* holds the HTTP status, the error code and the result of the service:    *)
(* the empty set for None, or the set of the one path object.              *)

MaxPathNodes == 3
MaxDepth == 2
PathNodes == 1..MaxPathNodes

NoRelationships == [RELS |-> {}]

\* the node a path from a ends at
PathEnd(a, p) == IF p = <<>> THEN a ELSE p[Len(p)].to

\* (n)-[r]-(m): the relationships of n, followed in either direction
Steps(g, n) ==
    {[rel |-> e, to |-> IF e[1] = n THEN e[2] ELSE e[1]] :
        e \in {r \in g.RELS : r[1] = n \/ r[2] = n}}

RECURSIVE PathsOfLength(_, _, _)
\* the paths of k relationships from a; no relationship is taken twice
PathsOfLength(g, a, k) ==
    IF k = 0 THEN {<<>>}
    ELSE UNION {{Append(p, s) :
                    s \in {t \in Steps(g, PathEnd(a, p)) :
                              \A i \in DOMAIN p : p[i].rel # t.rel}} :
                p \in PathsOfLength(g, a, k - 1)}

RECURSIVE shortestPath(_, _, _, _, _)
\* shortestPath((start)-[*..max]-(end)): the paths of the least length from
\* k to max that end at b; the store returns one of them
shortestPath(g, a, b, k, max) ==
    IF k > max THEN {}
    ELSE LET found == {p \in PathsOfLength(g, a, k) : PathEnd(a, p) = b}
         IN  IF found # {} THEN found
             ELSE shortestPath(g, a, b, k + 1, max)

\* the dict get_path builds from the record
PathObject(a, p) ==
    [nodes |-> <<a>> \o [i \in DOMAIN p |-> p[i].to],
     edges |-> [i \in DOMAIN p |->
                   [source |-> p[i].rel[1], target |-> p[i].rel[2]]],
     length |-> Len(p)]

PathArgs(from_id, to_id, max_depth) ==
    [from |-> from_id, to |-> to_id, max_depth |-> max_depth]

\* GET /graph/path for two different nodes: the service returns None when
\* the query has no record and the router answers 404 NO_PATH, else 200
get_path(from_id, to_id, max_depth) ==
    /\ from_id # to_id
    /\ LET found == shortestPath(graph, from_id, to_id, 1, max_depth)
       IN  IF found = {}
           THEN FlagsReturned(PathArgs(from_id, to_id, max_depth),
                              [status |-> 404, code |-> "NO_PATH",
                               result |-> {}])
           ELSE \E p \in found :
                   FlagsReturned(PathArgs(from_id, to_id, max_depth),
                                 [status |-> 200, code |-> "",
                                  result |-> {PathObject(from_id, p)}])

\* start and end are the same node and the store forbids shortestPath on
\* common nodes (its default): session.run raises, get_path and the router
\* do not handle it, the global handler answers 500
get_path_raises(node_id, max_depth) ==
    /\ rf_pc = "loading"
    /\ rf_pc' = "raised"
    /\ rf_args' = PathArgs(node_id, node_id, max_depth)
    /\ flags' = [status |-> 500, code |-> "INTERNAL_ERROR", result |-> {}]
    /\ UNCHANGED graph
    /\ UNCHANGED FlagOthers

\* start and end are the same node and the store allows it: no record
get_path_same_node(node_id, max_depth) ==
    FlagsReturned(PathArgs(node_id, node_id, max_depth),
                  [status |-> 404, code |-> "NO_PATH", result |-> {}])

LoadRelationship(a, b) ==
    /\ <<a, b>> \notin graph.RELS
    /\ GraphLoaded([graph EXCEPT !.RELS = @ \cup {<<a, b>>}])

PathNext ==
    \/ \E a, b \in PathNodes : a # b /\ LoadRelationship(a, b)
    \/ \E a, b \in PathNodes : \E d \in 1..MaxDepth : get_path(a, b, d)
    \/ \E a \in PathNodes : \E d \in 1..MaxDepth : get_path_raises(a, d)
    \/ \E a \in PathNodes : \E d \in 1..MaxDepth : get_path_same_node(a, d)

-----------------------------------------------------------------------------
(* Neo4jLoader: the store as the list of its nodes, each with a label and  *)
(* its properties, and the list of its relationships between positions of  *)
(* the node list. A record is a function from field names to values; a     *)
(* field that is missing or null in the file is missing in the record.    *)
(* The records of one call fit in one batch, which the store applies       *)
(* wholly or not at all.                                                   *)

MaxLoadRecords == 2
MaxLoadRuns == 3

EmptyStore == [nodes |-> <<>>, edges |-> <<>>]

\* the null of the store and of dict.get for a missing field
Null == "<null>"

\* record.field, null when the record has no such field
Field(record, field) ==
    IF field \in DOMAIN record THEN record[field] ELSE Null

\* SET n += record: the fields of the record replace those of the node, a
\* null removes the property
PlusEquals(props, record) ==
    LET merged == [k \in DOMAIN props \cup DOMAIN record |->
                      IF k \in DOMAIN record THEN record[k] ELSE props[k]]
    IN  [k \in {j \in DOMAIN merged : merged[j] # Null} |-> merged[k]]

\* MATCH (n:label {key: value})
MatchNodes(g, label, key, value) ==
    {i \in DOMAIN g.nodes :
        /\ g.nodes[i].label = label
        /\ Field(g.nodes[i].props, key) = value}

\* CREATE (n:label) SET n += record
CreateNode(g, label, key, record) ==
    [g EXCEPT !.nodes =
        Append(@, [label |-> label, props |-> PlusEquals(<<>>, record)])]

\* MERGE (n:label {key: record.key}) SET n += record
MergeNode(g, label, key, record) ==
    LET found == MatchNodes(g, label, key, record[key])
    IN  IF found = {} THEN CreateNode(g, label, key, record)
        ELSE [g EXCEPT !.nodes =
                 [i \in DOMAIN g.nodes |->
                     IF i \in found
                     THEN [g.nodes[i] EXCEPT
                              !.props = PlusEquals(@, record)]
                     ELSE g.nodes[i]]]

RECURSIVE MergeNodes(_, _, _, _)
\* UNWIND $records AS record MERGE ...
MergeNodes(g, label, key, records) ==
    IF records = <<>> THEN g
    ELSE MergeNodes(MergeNode(g, label, key, Head(records)), label, key,
                    Tail(records))

\* Neo4jLoader.load_nodes(node_type, records, unique_key): MERGE with a null
\* key is an error of the store, which the loader logs
load_nodes(g, node_type, records, unique_key) ==
    IF \E i \in DOMAIN records : Field(records[i], unique_key) = Null
    THEN g
    ELSE MergeNodes(g, node_type, unique_key, records)

RECURSIVE MergeEdgesBetween(_, _, _)
\* MERGE (from)-[r:edge_type]->(to) for the rows <<from, to>> of pairs
MergeEdgesBetween(g, edge_type, pairs) ==
    IF pairs = {} THEN g
    ELSE LET p == CHOOSE q \in pairs :
                     \A r \in pairs : q[1] < r[1] \/ (q[1] = r[1] /\ q[2] <= r[2])
             e == [type |-> edge_type, from |-> p[1], to |-> p[2]]
             merged == IF \E i \in DOMAIN g.edges : g.edges[i] = e THEN g
                       ELSE [g EXCEPT !.edges = Append(@, e)]
         IN  MergeEdgesBetween(merged, edge_type, pairs \ {p})

RECURSIVE MergeEdges(_, _, _, _)
\* UNWIND $records AS record MATCH (from ...) MATCH (to ...) MERGE ...; an
\* end is <<label, key, field>>
MergeEdges(g, edge_type, records, ends) ==
    IF records = <<>> THEN g
    ELSE LET record == Head(records)
             from == MatchNodes(g, ends[1][1], ends[1][2],
                                Field(record, ends[1][3]))
             to == MatchNodes(g, ends[2][1], ends[2][2],
                              Field(record, ends[2][3]))
         IN  MergeEdges(MergeEdgesBetween(g, edge_type, from \X to),
                        edge_type, Tail(records), ends)

\* Neo4jLoader.load_edges(edge_type, records, ...)
load_edges(g, edge_type, records, ends) == MergeEdges(g, edge_type, records, ends)

\* the falsy values of a field are null and the empty string
Truthy(v) == v # Null /\ v # ""

RECURSIVE UniqueNamed(_, _, _)
\* the dict of the first record for every truthy value of a field, in the
\* order of insertion
UniqueNamed(contracts, field, seen) ==
    IF contracts = <<>> THEN <<>>
    ELSE LET v == Field(Head(contracts), field)
         IN  IF Truthy(v) /\ v \notin seen
             THEN <<v>> \o UniqueNamed(Tail(contracts), field, seen \cup {v})
             ELSE UniqueNamed(Tail(contracts), field, seen)

\* Neo4jLoader.load_full_dataset, the contracts file
load_full_dataset(g, contracts) ==
    LET agency_names == UniqueNamed(contracts, "procuring_entity", {})
        agencies == [i \in DOMAIN agency_names |->
                        [name |-> agency_names[i], type |-> "unknown"]]
        contractor_names == UniqueNamed(contracts, "contractor_name", {})
        contractors == [i \in DOMAIN contractor_names |->
                           [contractor_name |-> contractor_names[i],
                            name |-> contractor_names[i]]]
        HasAgency(c) == /\ Truthy(Field(c, "procuring_entity"))
                        /\ Truthy(Field(c, "reference_number"))
        HasContractor(c) == /\ Truthy(Field(c, "reference_number"))
                            /\ Truthy(Field(c, "contractor_name"))
        procured == SelectSeq(contracts, HasAgency)
        procured_edges == [i \in DOMAIN procured |->
                              [agency_name |-> procured[i].procuring_entity,
                               contract_ref |-> procured[i].reference_number]]
        awarded == SelectSeq(contracts, HasContractor)
        awarded_edges == [i \in DOMAIN awarded |->
                             [contract_ref |-> awarded[i].reference_number,
                              contractor_name |-> awarded[i].contractor_name]]
        g1 == load_nodes(g, "Agency", agencies, "name")
        g2 == load_nodes(g1, "Contractor", contractors, "name")
        g3 == load_nodes(g2, "Contract", contracts, "reference_number")
        g4 == load_edges(g3, "PROCURED", procured_edges,
                         <<<<"Agency", "name", "agency_name">>,
                           <<"Contract", "reference_number", "contract_ref">>>>)
    IN  load_edges(g4, "AWARDED_TO", awarded_edges,
                   <<<<"Contract", "reference_number", "contract_ref">>,
                     <<"Contractor", "name", "contractor_name">>>>)

ContractRecords ==
    {PlusEquals(<<>>, [reference_number |-> r, procuring_entity |-> a,
                       contractor_name |-> c]) :
        r \in {"R1", "R2", Null}, a \in {"DPWH", Null}, c \in {"X", "Y", ""}}

\* a record of the contracts file is read
ReadContractRecord(record) ==
    /\ rf_pc = "loading"
    /\ rf_args.runs = 0
    /\ Len(rf_args.contracts) < MaxLoadRecords
    /\ rf_args' = [rf_args EXCEPT !.contracts = Append(@, record)]
    /\ UNCHANGED <<rf_pc, graph, flags>>
    /\ UNCHANGED FlagOthers

\* one run of load_full_dataset on the file; first is the store after the
\* first run
RunLoadFullDataset ==
    /\ rf_pc = "loading"
    /\ rf_args.runs < MaxLoadRuns
    /\ graph' = load_full_dataset(graph, rf_args.contracts)
    /\ rf_args' = [rf_args EXCEPT !.runs = @ + 1,
                                  !.first = IF rf_args.runs = 0 THEN graph'
                                            ELSE @]
    /\ UNCHANGED <<rf_pc, flags>>
    /\ UNCHANGED FlagOthers

LoaderNext ==
    \/ \E record \in ContractRecords : ReadContractRecord(record)
    \/ RunLoadFullDataset

-----------------------------------------------------------------------------
(* rate_limit_middleware and _check_rate_limit. The clock counts ticks; a  *)
(* window of 60 seconds is Window ticks, and the two limits are scaled     *)
(* down with it. A path is the tuple of its characters.                    *)

MaxNow == 2
MaxRequests == 3
Window == 2
chat_rate_limit == 1
graph_rate_limit == 2

ClientIps == {"10.0.0.1", "10.0.0.2"}
Buckets == {"chat", "graph"}

ApiV1 == <<"/", "a", "p", "i", "/", "v", "1", "/">>
ChatPath == ApiV1 \o <<"c", "h", "a", "t">>
ChatStreamPath == ChatPath \o <<"/", "s">>
GraphPath == ApiV1 \o <<"g", "r", "a", "p", "h">>
HealthPath == <<"/", "h", "e", "a", "l", "t", "h">>
Paths == {ChatStreamPath, GraphPath, HealthPath}

LimitOthers ==
    <<detectVars, normVars, resolveVars, cobidVars, splitVars, flagVars,
      chatVars, collectorVars>>

LimitInit ==
    /\ rate_limits = [ip \in ClientIps |-> [b \in Buckets |-> <<>>]]
    /\ now = 0
    /\ answered = <<>>

LimitIdle ==
    /\ rate_limits = <<>>
    /\ now = 0
    /\ answered = <<>>

\* str.startswith
StartsWith(s, prefix) ==
    Len(s) >= Len(prefix) /\ SubSeq(s, 1, Len(prefix)) = prefix

\* len(...) > max_requests
OverLimit(count, max_requests) == count > max_requests

\* len(_rate_limits[ip][bucket]) >= max_requests
AtLimit(count, max_requests) == count >= max_requests

\* [t for t in timestamps if now - t < window]
Prune(timestamps, window) ==
    LET Fresh(t) == now - t < window IN SelectSeq(timestamps, Fresh)

\* _check_rate_limit(ip, bucket, max_requests): the store afterwards and
\* the value returned
check_rate_limit(ip, bucket, max_requests) ==
    LET pruned == Prune(rate_limits[ip][bucket], Window)
    IN  IF AtLimit(Len(pruned), max_requests)
        THEN [store |-> [rate_limits EXCEPT ![ip][bucket] = pruned],
              allowed |-> FALSE]
        ELSE [store |-> [rate_limits EXCEPT ![ip][bucket] =
                                                Append(pruned, now)],
              allowed |-> TRUE]

\* what the middleware did with a request
Answer(ip, path, status) ==
    Append(answered, [ip |-> ip, path |-> path, time |-> now,
                      status |-> status])

\* rate_limit_middleware(request, call_next): 429 when the bucket of the
\* path is full, else the answer of call_next
rate_limit_middleware(ip, path) ==
    /\ Len(answered) < MaxRequests
    /\ LET checked ==
               IF StartsWith(path, ChatPath)
               THEN check_rate_limit(ip, "chat", chat_rate_limit)
               ELSE IF StartsWith(path, ApiV1)
               THEN check_rate_limit(ip, "graph", graph_rate_limit)
               ELSE [store |-> rate_limits, allowed |-> TRUE]
       IN  /\ rate_limits' = checked.store
           /\ answered' = Answer(ip, path,
                                 IF checked.allowed THEN 200 ELSE 429)
    /\ UNCHANGED now
    /\ UNCHANGED LimitOthers

\* time passes
Tick ==
    /\ now < MaxNow
    /\ now' = now + 1
    /\ UNCHANGED <<rate_limits, answered>>
    /\ UNCHANGED LimitOthers

LimitNext ==
    \/ \E ip \in ClientIps : \E path \in Paths : rate_limit_middleware(ip, path)
    \/ Tick

-----------------------------------------------------------------------------
(* The chat stream: event_generator drives answer_stream and forwards its  *)
(* events. An await of answer_stream returns or raises; the client does    *)
(* not cancel the stream.                                                  *)

MaxTokens == 3

Intents == {"entity_lookup", "relationship_query", "analytical", "general"}

ChatOthers ==
    <<detectVars, normVars, resolveVars, cobidVars, splitVars, flagVars,
      limitVars, collectorVars>>

ChatInit ==
    /\ ch_pc = "start"
    /\ ch_request \in [history : BOOLEAN, focused : BOOLEAN]
    /\ ch_intent = ""
    /\ ch_tokens = 0
    /\ ch_events = <<>>

ChatIdle ==
    /\ ch_pc = "idle"
    /\ ch_request = <<>>
    /\ ch_intent = ""
    /\ ch_tokens = 0
    /\ ch_events = <<>>

Event(event, data) == [event |-> event, data |-> data]

\* the exception is dropped and nothing is emitted
Swallowed(events, e) == events

\* except Exception as e: yield the error event
OnException(events, e) ==
    Append(events, Event("error", [code |-> "LLM_ERROR", message |-> e]))

\* yield {"event": "message_id", ...}
SendMessageId ==
    /\ ch_pc = "start"
    /\ ch_pc' = "classify"
    /\ ch_events' = Append(ch_events, Event("message_id", <<>>))
    /\ UNCHANGED <<ch_request, ch_intent, ch_tokens>>
    /\ UNCHANGED ChatOthers

\* intent = await self.classify_intent(question)
ClassifyIntent(intent) ==
    /\ ch_pc = "classify"
    /\ ch_pc' = "query"
    /\ ch_intent' = intent
    /\ UNCHANGED <<ch_request, ch_tokens, ch_events>>
    /\ UNCHANGED ChatOthers

\* result = await self.<intent>_query(question), and get_node_detail for a
\* focused node
QueryGraph ==
    /\ ch_pc = "query"
    /\ ch_pc' = IF ch_request.history THEN "stream_messages" ELSE "stream"
    /\ UNCHANGED <<ch_request, ch_intent, ch_tokens, ch_events>>
    /\ UNCHANGED ChatOthers

\* async for token in self.llm.stream(...) / stream_messages(...): a token
StreamToken ==
    /\ ch_pc \in {"stream", "stream_messages"}
    /\ ch_tokens < MaxTokens
    /\ ch_tokens' = ch_tokens + 1
    /\ ch_events' = Append(ch_events, Event("token", ch_tokens + 1))
    /\ UNCHANGED <<ch_pc, ch_request, ch_intent>>
    /\ UNCHANGED ChatOthers

\* the token stream ends and answer_stream yields done
StreamDone ==
    /\ ch_pc \in {"stream", "stream_messages"}
    /\ ch_pc' = "meta"
    /\ ch_events' = Append(ch_events, Event("done", [intent |-> ch_intent]))
    /\ UNCHANGED <<ch_request, ch_intent, ch_tokens>>
    /\ UNCHANGED ChatOthers

\* an await or a call of answer_stream raises, before it has yielded done
StreamRaises ==
    /\ ch_pc \in {"classify", "query", "stream", "stream_messages"}
    /\ ch_pc' = "meta"
    /\ ch_events' = OnException(ch_events, ch_pc)
    /\ UNCHANGED <<ch_request, ch_intent, ch_tokens>>
    /\ UNCHANGED ChatOthers

\* yield {"event": "meta", ...} and the generator returns
SendMeta ==
    /\ ch_pc = "meta"
    /\ ch_pc' = "closed"
    /\ ch_events' = Append(ch_events, Event("meta", <<>>))
    /\ UNCHANGED <<ch_request, ch_intent, ch_tokens>>
    /\ UNCHANGED ChatOthers

ChatNext ==
    \/ SendMessageId
    \/ \E intent \in Intents : ClassifyIntent(intent)
    \/ QueryGraph
    \/ StreamToken
    \/ StreamDone
    \/ StreamRaises
    \/ SendMeta

-----------------------------------------------------------------------------
(* GET /analytics/red-flags. A node id is <<label, number>>; a finding     *)
(* holds its type, its severity and the ids of its evidence, by key.       *)

MaxFlagged == 2
MaxEntities == 2

\* the id keys of the evidence of every detector, with the label of the
\* node the query takes the id from
EvidenceIds ==
    [single_bidder |-> <<<<"contractor_id", "Contractor">>>>,
     identical_bid_amounts |-> <<<<"contract_id", "Contract">>>>,
     split_contracts |-> <<<<"agency_id", "Agency">>,
                           <<"contractor_id", "Contractor">>>>,
     concentration |-> <<<<"agency_id", "Agency">>>>,
     rotating_winners |-> <<<<"contractor1_id", "Contractor">>,
                            <<"contractor2_id", "Contractor">>>>,
     political_connection |-> <<<<"contractor_id", "Contractor">>,
                                <<"politician_id", "Politician">>>>,
     geographic_anomaly |-> <<<<"contractor_id", "Contractor">>>>,
     shell_company |-> <<<<"contractor_id", "Contractor">>>>,
     phoenix_company |-> <<<<"new_contractor_id", "Contractor">>,
                           <<"blacklisted_contractor_id", "Contractor">>>>,
     campaign_connection |-> <<<<"contractor_id", "Contractor">>,
                               <<"politician_id", "Politician">>>>,
     circular_flow |-> <<<<"contractor1_id", "Contractor">>,
                         <<"contractor2_id", "Contractor">>,
                         <<"contractor3_id", "Contractor">>>>,
     timing_cluster |-> <<<<"agency_id", "Agency">>,
                          <<"contractor_id", "Contractor">>>>,
     shell_network |-> <<<<"contractor1_id", "Contractor">>,
                         <<"contractor2_id", "Contractor">>>>]

\* Severity of the RedFlag each detector builds
SeverityOf(type) ==
    CASE type \in {"single_bidder", "geographic_anomaly"} -> "medium"
      [] type = "circular_flow" -> "critical"
      [] OTHER -> "high"

\* a finding of a detector on the nodes numbered from n
Finding(type, n) ==
    LET ids == EvidenceIds[type]
    IN  [type |-> type,
         severity |-> SeverityOf(type),
         evidence |-> [k \in {ids[i][1] : i \in DOMAIN ids} |->
                          LET i == CHOOSE j \in DOMAIN ids : ids[j][1] = k
                          IN  <<ids[i][2], ((n + i - 2) % MaxEntities) + 1>>]]

\* flag.evidence.get(key): None is the empty tuple, which is falsy
Get(evidence, key) == IF key \in DOMAIN evidence THEN evidence[key] ELSE <<>>

\* a or b
Or(a, b) == IF a # <<>> THEN a ELSE b

severity_weights == [critical |-> 4, high |-> 3, medium |-> 2, low |-> 1]

\* the body of the loop over the flags of get_red_flags
GroupFlag(entity_map, flag) ==
    LET eid == Or(Get(flag.evidence, "contractor_id"),
               Or(Get(flag.evidence, "agency_id"),
               Or(Get(flag.evidence, "contract_id"),
               Or(Get(flag.evidence, "contractor1_id"), <<"unknown">>))))
        etype == IF Get(flag.evidence, "agency_id") # <<>> THEN "Agency"
                 ELSE "Contractor"
        item == IF eid \in DOMAIN entity_map THEN entity_map[eid]
                ELSE [entity_id |-> eid, entity_type |-> etype,
                      red_flags |-> <<>>, risk_score |-> 0]
    IN  [e \in DOMAIN entity_map \cup {eid} |->
            IF e = eid
            THEN [item EXCEPT !.red_flags = Append(@, flag),
                              !.risk_score = @ + severity_weights[flag.severity]]
            ELSE entity_map[e]]

RECURSIVE GroupFlags(_, _)
GroupFlags(entity_map, flag_list) ==
    IF flag_list = <<>> THEN entity_map
    ELSE GroupFlags(GroupFlag(entity_map, Head(flag_list)), Tail(flag_list))

RECURSIVE AllOf(_, _)
\* the flags of all_flags.items(), in the order of the keys of detect_all
AllOf(all_flags, i) ==
    IF i > Len(detectors) THEN <<>>
    ELSE all_flags[detectors[i].key] \o AllOf(all_flags, i + 1)

\* get_red_flags without a severity filter and with a limit that holds
\* every item: the items, which the endpoint sorts by risk_score
get_red_flags(all_flags) ==
    LET entity_map == GroupFlags(<<>>, AllOf(all_flags, 1))
    IN  {entity_map[e] : e \in DOMAIN entity_map}

\* a detector of detect_all has one more finding
DetectorFinds(i, n) ==
    /\ Len(AllOf(graph, 1)) < MaxFlagged
    /\ GraphLoaded([graph EXCEPT ![detectors[i].key] =
                       Append(@, Finding(detectors[i].type, n))])

RunGetRedFlags == FlagsReturned(<<>>, get_red_flags(graph))

RedFlagItemsNext ==
    \/ \E i \in DOMAIN detectors : \E n \in 1..MaxEntities : DetectorFinds(i, n)
    \/ RunGetRedFlags

-----------------------------------------------------------------------------
(* rotating_winners on a store of contracts, awards, bids and at most one  *)
(* CO_BID_WITH relationship for a pair of contractors.                     *)

RotatingStore ==
    [props |-> [c \in 1..MaxProfileContracts |-> [amount |-> 10]],
     AWARDED_TO |-> {}, BID_ON |-> <<>>, CO_BID_WITH |-> <<>>]

\* MERGE (from)-[r:CO_BID_WITH]->(to) SET r += {contract_count}
LoadCoBidWith(from, to, contract_count) ==
    /\ from # to
    /\ Either({<<from, to>>}) \cap DOMAIN graph.CO_BID_WITH = {}
    /\ GraphLoaded([graph EXCEPT !.CO_BID_WITH =
                       SetKey(@, <<from, to>>, contract_count)])

RunRotatingWinners == FlagsReturned(<<>>, rotating_winners(graph))

RotatingNext ==
    \/ \E c \in 1..MaxProfileContracts : \E con \in 1..2 : LoadAwardedTo(c, con)
    \/ \E c \in 1..MaxProfileContracts : \E con \in 1..2 : LoadBidOn(con, c)
    \/ \E from, to \in 1..2 : \E n \in {2, 3} : LoadCoBidWith(from, to, n)
    \/ RunRotatingWinners

-----------------------------------------------------------------------------
(* PhilGEPSCollector.collect followed by the transform stage with          *)
(* derive-edges. cb_rows holds all_records and the contracts file that     *)
(* save_processed wrote; parse_xlsx keeps only rows with a                 *)
(* reference_number, so every record has one.                              *)

MaxCollected == 4
MaxCollectedRefs == 2

ParsedRecords ==
    {Row(r, c) : r \in 1..MaxCollectedRefs, c \in {"A", "B", ""}}

\* a collector that keeps every record
KeepAll(records) == records

RECURSIVE Unique(_, _)
\* the loop of deduplicate_by_reference, from the records left and seen
Unique(records, seen) ==
    IF records = <<>> THEN <<>>
    ELSE LET record == Head(records)
             ref == record.reference_number
         IN  IF ref \notin seen
             THEN <<record>> \o Unique(Tail(records), seen \cup {ref})
             ELSE Unique(Tail(records), seen)

deduplicate_by_reference(records) == Unique(records, {})

RECURSIVE BiddersOf(_)
\* the first loop of derive_co_bidding over a list of contracts
BiddersOf(contracts) ==
    IF contracts = <<>> THEN <<>>
    ELSE LET cb == BiddersOf(SubSeq(contracts, 1, Len(contracts) - 1))
             row == contracts[Len(contracts)]
         IN  IF RowAccepted(row) THEN AddBidder(cb, row) ELSE cb

CollectInit ==
    /\ cb_pc = "parsing"
    /\ cb_rows = [all_records |-> <<>>, file |-> <<>>]
    /\ contract_bidders = <<>>
    /\ cb_edges = {}

\* all_records.extend(records), a record at a time
ParseRecord(record) ==
    /\ cb_pc = "parsing"
    /\ Len(cb_rows.all_records) < MaxCollected
    /\ cb_rows' = [cb_rows EXCEPT !.all_records = Append(@, record)]
    /\ UNCHANGED <<cb_pc, contract_bidders, cb_edges>>
    /\ UNCHANGED CoBidOthers

\* the rest of collect: without records it returns and writes no file
collect ==
    /\ cb_pc = "parsing"
    /\ IF cb_rows.all_records = <<>>
       THEN cb_pc' = "done" /\ UNCHANGED cb_rows
       ELSE /\ cb_pc' = "saved"
            /\ cb_rows' = [cb_rows EXCEPT !.file =
                              deduplicate_by_reference(cb_rows.all_records)]
    /\ UNCHANGED <<contract_bidders, cb_edges>>
    /\ UNCHANGED CoBidOthers

\* transform with derive-edges on the contracts file
DeriveEdges ==
    /\ cb_pc = "saved"
    /\ contract_bidders' = BiddersOf(cb_rows.file)
    /\ cb_edges' = CoBidEdges(BiddersOf(cb_rows.file))
    /\ cb_pc' = "done"
    /\ UNCHANGED cb_rows
    /\ UNCHANGED CoBidOthers

CollectNext ==
    \/ \E record \in ParsedRecords : ParseRecord(record)
    \/ collect
    \/ DeriveEdges

-----------------------------------------------------------------------------
(* PhilGEPSCollector.collect, run after run. Every run is a new collector  *)
(* whose state is read from collector_state.json. A file of the raw        *)
(* directory has a name and the number of records parse_xlsx makes of it;  *)
(* a file that cannot be read, or without usable rows, gives no record.    *)

MaxCollectRuns == 3
MaxRowsOfFile == 1

XlsxNames == {"a.xlsx", "b.xlsx"}

CollectorOthers ==
    <<detectVars, normVars, resolveVars, cobidVars, splitVars, flagVars,
      limitVars, chatVars>>

\* no collector_state.json, an empty raw directory, nothing parsed
CollectorInit ==
    /\ state_file = [exists |-> FALSE, processed_files |-> <<>>]
    /\ raw_dir = <<>>
    /\ contracts_files = <<>>
    /\ parsed = [f \in XlsxNames |-> 0]
    /\ runs = 0

CollectorIdle == CollectorInit

\* _load_state
load_state(file) ==
    IF file.exists THEN [processed_files |-> file.processed_files]
    ELSE [processed_files |-> <<>>]

\* if not all_records: return, before _save_state is reached
StateSaved(done) == done.all_records # <<>>

InList(x, list) == \E i \in DOMAIN list : list[i] = x

RECURSIVE ParseEach(_, _)
\* for filepath in xlsx_files, from the collector's state: the state, the
\* records and the files parse_xlsx was called on
ParseEach(xlsx_files, st) ==
    IF xlsx_files = <<>> THEN st
    ELSE LET name == Head(xlsx_files)
         IN  IF InList(name, st.processed_files)
             THEN ParseEach(Tail(xlsx_files), st)
             ELSE ParseEach(Tail(xlsx_files),
                    [processed_files |-> Append(st.processed_files, name),
                     all_records |-> st.all_records
                         \o [i \in 1..raw_dir[name] |-> name],
                     calls |-> st.calls \cup {name}])

\* the orders in which glob may list the files of the raw directory
Listings ==
    {order \in [1..Cardinality(DOMAIN raw_dir) -> DOMAIN raw_dir] :
        \A i, j \in DOMAIN order : order[i] = order[j] => i = j}

\* the user places an XLSX file in the raw directory
PlaceFile(name, rows) ==
    /\ name \notin DOMAIN raw_dir
    /\ raw_dir' = SetKey(raw_dir, name, rows)
    /\ UNCHANGED <<state_file, contracts_files, parsed, runs>>
    /\ UNCHANGED CollectorOthers

\* one run of collect by a new PhilGEPSCollector
RunCollect(xlsx_files) ==
    /\ runs < MaxCollectRuns
    /\ runs' = runs + 1
    /\ LET loaded == load_state(state_file)
           done == ParseEach(xlsx_files,
                      [processed_files |-> loaded.processed_files,
                       all_records |-> <<>>, calls |-> {}])
       IN  /\ parsed' = [f \in XlsxNames |->
                            parsed[f] + (IF f \in done.calls THEN 1 ELSE 0)]
           /\ IF StateSaved(done)
              THEN /\ contracts_files' = Append(contracts_files,
                                                done.all_records)
                   /\ state_file' = [exists |-> TRUE,
                                     processed_files |-> done.processed_files]
              ELSE UNCHANGED <<contracts_files, state_file>>
    /\ UNCHANGED raw_dir
    /\ UNCHANGED CollectorOthers

CollectorNext ==
    \/ \E name \in XlsxNames : \E rows \in 0..MaxRowsOfFile :
          PlaceFile(name, rows)
    \/ \E xlsx_files \in Listings : RunCollect(xlsx_files)

-----------------------------------------------------------------------------
(* The specifications: one per component, the others idle.                 *)

ServiceIdle == LimitIdle /\ ChatIdle /\ CollectorIdle

InitDetect == DetectInit /\ NormIdle /\ ResolveIdle /\ CoBidIdle /\ SplitIdle
    /\ FlagIdle /\ ServiceIdle

SpecDetect == InitDetect /\ [][DetectNext]_vars

InitNorm == NormInit /\ DetectIdle /\ ResolveIdle /\ CoBidIdle /\ SplitIdle
    /\ FlagIdle /\ ServiceIdle

SpecNorm == InitNorm /\ [][NormNext]_vars

InitResolve == ResolveInit /\ DetectIdle /\ NormIdle /\ CoBidIdle /\ SplitIdle
    /\ FlagIdle /\ ServiceIdle

SpecResolve == InitResolve /\ [][ResolveNext]_vars

InitCoBid == CoBidInit /\ DetectIdle /\ NormIdle /\ ResolveIdle /\ SplitIdle
    /\ FlagIdle /\ ServiceIdle

SpecCoBid == InitCoBid /\ [][CoBidNext]_vars

InitSplit == SplitInit /\ DetectIdle /\ NormIdle /\ ResolveIdle /\ CoBidIdle
    /\ FlagIdle /\ ServiceIdle

AllIdle ==
    DetectIdle /\ NormIdle /\ ResolveIdle /\ CoBidIdle /\ SplitIdle
        /\ ServiceIdle

PipelineIdle ==
    DetectIdle /\ NormIdle /\ ResolveIdle /\ CoBidIdle /\ SplitIdle
        /\ FlagIdle

InitSplitFlag == FlagInit(NoContracts) /\ AllIdle

SpecSplitFlag == InitSplitFlag /\ [][SplitFlagNext]_vars

InitTiming == FlagInit(NoContracts) /\ AllIdle

SpecTiming == InitTiming /\ [][TimingNext]_vars

InitIdenticalBids == (\E kind \in NumberKinds : FlagInit(NoBids(kind))) /\ AllIdle

SpecIdenticalBids == InitIdenticalBids /\ [][IdenticalBidsNext]_vars

InitGeographic == FlagInit(GeoStore) /\ AllIdle

SpecGeographic == InitGeographic /\ [][GeographicNext]_vars

InitCampaign == FlagInit(CampaignStore) /\ AllIdle

SpecCampaign == InitCampaign /\ [][CampaignNext]_vars

InitSingleBidder == FlagInit(NoContracts) /\ AllIdle

SpecSingleBidder == InitSingleBidder /\ [][SingleBidderNext]_vars

InitConcentration ==
    (\E kind \in NumberKinds : FlagInit(ValuedStore(kind))) /\ AllIdle

SpecConcentration == InitConcentration /\ [][ConcentrationNext]_vars

SpecAgencyConcentration ==
    InitConcentration /\ [][AgencyConcentrationNext]_vars

InitCircular == FlagInit(NoSubcontracts) /\ AllIdle

SpecCircular == InitCircular /\ [][CircularNext]_vars


SpecSplit == InitSplit /\ [][SplitNext]_vars


InitNodesOnly == FlagInit(NodesOnly) /\ AllIdle

SpecNodesOnly == InitNodesOnly /\ [][NodesOnlyNext]_vars

InitProfile == FlagInit(ProfileStore) /\ AllIdle

SpecProfile == InitProfile /\ [][ProfileNext]_vars

InitPath == FlagInit(NoRelationships) /\ AllIdle

SpecPath == InitPath /\ [][PathNext]_vars

InitLoader ==
    /\ rf_pc = "loading"
    /\ rf_args = [contracts |-> <<>>, runs |-> 0, first |-> EmptyStore]
    /\ graph = EmptyStore
    /\ flags = {}
    /\ AllIdle

SpecLoader == InitLoader /\ [][LoaderNext]_vars

InitLimit == LimitInit /\ PipelineIdle /\ ChatIdle /\ CollectorIdle

SpecLimit == InitLimit /\ [][LimitNext]_vars

InitChat == ChatInit /\ PipelineIdle /\ LimitIdle /\ CollectorIdle

SpecChat == InitChat /\ [][ChatNext]_vars

InitRedFlagItems == FlagInit([k \in DetectorKeys |-> <<>>]) /\ AllIdle

SpecRedFlagItems == InitRedFlagItems /\ [][RedFlagItemsNext]_vars

InitRotating == FlagInit(RotatingStore) /\ AllIdle

SpecRotating == InitRotating /\ [][RotatingNext]_vars

InitCollect ==
    CollectInit /\ DetectIdle /\ NormIdle /\ ResolveIdle /\ SplitIdle
        /\ FlagIdle /\ ServiceIdle

SpecCollect == InitCollect /\ [][CollectNext]_vars

InitCollector == CollectorInit /\ PipelineIdle /\ LimitIdle /\ ChatIdle

SpecCollector == InitCollector /\ [][CollectorNext]_vars

-----------------------------------------------------------------------------
(* The claims.                                                             *)

\* C1: when a detector raises, detect_all still returns the mapping, with
\* the findings of every other detector; the failure never leaves
\* detect_all.
C1_DetectorFailureIsolated ==
    /\ da_status # "raised"
    /\ da_status = "returned" => DOMAIN da_result = DetectorKeys

\* C2: normalizing a normalized name changes nothing, for contractor names
\* and for politician names.
C2_NormalizationIdempotent == nm_pc = "twice" => nm_twice = nm_once

\* the pair of raw names a and b is listed in ms, in either order
Listed(ms, a, b) ==
    \E k \in DOMAIN ms : {ms[k].name1, ms[k].name2} = {a, b}

\* C3: after the pipeline's resolver run, every pair of records with
\* distinct non-empty normalized names is auto-merged when its similarity
\* is >= 0.92, flagged for review when it is in [0.85, 0.92), and dropped
\* when it is below 0.85.
C3_PairsClassified ==
    rs_pc # "collect" =>
        \A i \in DOMAIN contractor_list : \A j \in DOMAIN contractor_list :
            LET n1 == normalize_contractor_name(contractor_list[i])
                n2 == normalize_contractor_name(contractor_list[j])
                sim == jaro_winkler_similarity(n1, n2)
                auto == Listed(merge_results.auto_merged,
                               contractor_list[i], contractor_list[j])
                review == Listed(merge_results.review_required,
                                 contractor_list[i], contractor_list[j])
            IN  (i < j /\ n1 # <<>> /\ n2 # <<>> /\ n1 # n2) =>
                  /\ FracGE(sim, FUZZY_MATCH_THRESHOLD_AUTO)
                        => (auto /\ ~review)
                  /\ (FracGE(sim, FUZZY_MATCH_THRESHOLD_REVIEW)
                        /\ FracLT(sim, FUZZY_MATCH_THRESHOLD_AUTO))
                        => (review /\ ~auto)
                  /\ FracLT(sim, FUZZY_MATCH_THRESHOLD_REVIEW)
                        => (~auto /\ ~review)

\* C4: the canonical name of an auto-merged pair is one of the two names,
\* the longer one, and with equal lengths the lexical order decides, so
\* that it is the same whichever record comes first.
C4_CanonicalIndependentOfOrder ==
    rs_pc # "collect" =>
        \A k \in DOMAIN merge_results.auto_merged :
            LET a == merge_results.auto_merged[k].name1
                b == merge_results.auto_merged[k].name2
                canonical == CanonicalOf(a, b)
            IN  /\ canonical \in {a, b}
                /\ Len(canonical) >= Len(a)
                /\ Len(canonical) >= Len(b)
                /\ canonical = CanonicalOf(b, a)

\* the contractor_name fields of a record list
NamesOf(records) == [i \in DOMAIN records |-> records[i].contractor_name]

\* C5: no value of merge_map is a key of merge_map, and applying the map a
\* second time renames no record.
C5_MergeMapResolvesFully ==
    /\ rs_pc # "collect" =>
          \A k \in DOMAIN merge_results.merge_map :
              merge_results.merge_map[k] \notin DOMAIN merge_results.merge_map
    /\ rs_pc = "applied2" => NamesOf(rs_records) = NamesOf(rs_prev)

\* C6: "ABC Construction Inc." and "ABC CONSTRUCTION INCORPORATED" both
\* normalize to "ABC CONSTRUCTION", and the resolver auto-merges them with
\* the longer raw name as canonical.
C6_AbcPairAutoMerged ==
    (rs_pc # "collect" /\ Range(contractor_list) = {AbcInc, AbcIncorporated})
      =>
        /\ normalize_contractor_name(AbcInc) = AbcConstruction
        /\ normalize_contractor_name(AbcIncorporated) = AbcConstruction
        /\ Listed(merge_results.auto_merged, AbcInc, AbcIncorporated)
        /\ AbcInc \in DOMAIN merge_results.merge_map
        /\ merge_results.merge_map[AbcInc] = AbcIncorporated

\* the references on which a record of the batch names both a and b
SharedRefs(a, b) ==
    {r \in {row.reference_number : row \in cb_rows} \ {0} :
        /\ \E row \in cb_rows :
              row.reference_number = r /\ row.contractor_name = a
        /\ \E row \in cb_rows :
              row.reference_number = r /\ row.contractor_name = b}

EdgeEnds(e) == {e.from_contractor, e.to_contractor}

\* C7: no edge of derive_co_bidding has a contract_count below 2, and an
\* unordered pair of contractors has at most one edge.
C7_EdgesCountedAndUnordered ==
    cb_pc = "done" =>
        /\ \A e \in cb_edges : e.contract_count >= 2
        /\ \A e1 \in cb_edges : \A e2 \in cb_edges :
              EdgeEnds(e1) = EdgeEnds(e2) => e1 = e2

\* C7 witness: edges were emitted from a batch in which another pair shares
\* exactly one reference.
C7_Witness ==
    /\ cb_pc = "done"
    /\ Cardinality(cb_edges) >= 2
    /\ \E a \in CoBidders : \E b \in CoBidders \ {a} :
          Cardinality(SharedRefs(a, b)) = 1

\* C8: the contract_count of an edge is the number of distinct references
\* its two contractors share, its pattern is "frequent" exactly from 5 on,
\* and two contractors that share 5 references get exactly one edge, with
\* count 5 and pattern "frequent".
C8_CountIsSharedReferences ==
    cb_pc = "done" =>
        /\ \A e \in cb_edges :
              /\ e.from_contractor # e.to_contractor
              /\ e.contract_count =
                    Cardinality(SharedRefs(e.from_contractor, e.to_contractor))
              /\ e.pattern = IF e.contract_count >= 5 THEN "frequent"
                             ELSE "occasional"
        /\ \A a \in CoBidders : \A b \in CoBidders \ {a} :
              Cardinality(SharedRefs(a, b)) = 5 =>
                 /\ Cardinality({e \in cb_edges : EdgeEnds(e) = {a, b}}) = 1
                 /\ \A e \in cb_edges : EdgeEnds(e) = {a, b} =>
                       e.contract_count = 5 /\ e.pattern = "frequent"

\* C8 witness: an edge with count 5 and pattern "frequent" next to an
\* occasional one, from a batch that also held rows the guard rejects.
C8_Witness ==
    /\ cb_pc = "done"
    /\ \E e \in cb_edges : e.contract_count = 5 /\ e.pattern = "frequent"
    /\ \E e \in cb_edges : e.pattern = "occasional"
    /\ \E row \in cb_rows : ~RowAccepted(row)

\* The records of the batch as C9 speaks of them: well-formed records, a
\* later record being one that follows the seed in date order (for equal
\* dates, in the order of the batch).
SplitWellFormed(c) ==
    /\ c.procuring_entity # ""
    /\ c.amount.t = "num" /\ c.amount.v > 0
    /\ c.award_date.t = "iso"

SplitLater(c1, c2) ==
    \/ fromisoformat(c2.award_date) > fromisoformat(c1.award_date)
    \/ /\ fromisoformat(c2.award_date) = fromisoformat(c1.award_date)
       /\ c2.reference_number > c1.reference_number

SplitFollowers(c1) ==
    {c2 \in Range(Indexed(sp_contracts)) :
        /\ SplitWellFormed(c2)
        /\ c2.procuring_entity = c1.procuring_entity
        /\ SplitLater(c1, c2)
        /\ fromisoformat(c2.award_date) - fromisoformat(c1.award_date) <= 30
        /\ 2 * c2.amount.v >= c1.amount.v
        /\ c2.amount.v <= 2 * c1.amount.v}

SplitSeeds ==
    {c1 \in Range(Indexed(sp_contracts)) :
        /\ SplitWellFormed(c1)
        /\ \E T \in {50000, 1000000, 5000000} :
              10 * c1.amount.v >= 7 * T /\ c1.amount.v <= T
        /\ SplitFollowers(c1) # {}}

RECURSIVE SumOf(_)
SumOf(S) == IF S = {} THEN 0
            ELSE LET x == CHOOSE y \in S : TRUE
                 IN  x.amount.v + SumOf(S \ {x})

GroupsAsClaimed ==
    /\ Len(split_groups) = Cardinality(SplitSeeds)
    /\ \A c1 \in SplitSeeds :
          \E k \in DOMAIN split_groups :
              LET g == split_groups[k]
              IN  /\ g.contracts[1].reference_number = c1.reference_number
                  /\ \A k2 \in DOMAIN split_groups :
                        split_groups[k2].contracts[1].reference_number
                            = c1.reference_number => k2 = k
                  /\ g.agency = c1.procuring_entity
                  /\ {g.contracts[n].reference_number : n \in 2..Len(g.contracts)}
                        = {c2.reference_number : c2 \in SplitFollowers(c1)}
                  /\ g.contract_count = 1 + Cardinality(SplitFollowers(c1))
                  /\ g.contract_count = Len(g.contracts)
                  /\ g.contract_count >= 2
                  /\ g.total_amount = SumOf(SplitFollowers(c1) \cup {c1})

\* C9: derive_split_contracts emits exactly one group for every seed
\* record in a threshold band that has a later similar record of its agency
\* within 30 days; the group holds the seed and exactly those records, and
\* its total_amount is their sum.
C9_OneGroupPerSeed == sp_pc # "loading" => GroupsAsClaimed

\* what C9 says holds of every batch on which derive_split_contracts
\* returns
C9_WhenReturned == sp_pc = "returned" => GroupsAsClaimed

\* C10: the derivers never raise on a batch with malformed records; the
\* malformed records are skipped and the others processed.
C10_MalformedRecordsSkipped ==
    /\ sp_pc # "raised"
    /\ sp_pc = "returned" => GroupsAsClaimed

\* the contracts of agency a awarded to contractor con with an amount in the
\* closed interval [0.7 * T, T]
InBand(a, con, T) ==
    {c \in DOMAIN graph.props :
        /\ <<a, c>> \in graph.PROCURED
        /\ <<c, con>> \in graph.AWARDED_TO
        /\ 10 * graph.props[c].amount >= 7 * T
        /\ graph.props[c].amount <= T}

\* C11: split_contracts(T) has a finding for an agency and a contractor
\* exactly when at least 3 of their contracts have an amount in
\* [0.7 * T, T], the two ends included.
C11_SplitFlagClosedBand ==
    rf_pc = "done" =>
        \A a \in Agencies : \A con \in Contractors :
            (\E f \in flags : f.agency = a /\ f.contractor = con)
                <=> Cardinality(InBand(a, con, rf_args.threshold)) >= 3

\* the contracts of agency a awarded to contractor con and dated in the d + 1
\* days that start at day s
InWindow(a, con, s, d) ==
    {c \in DOMAIN graph.props :
        /\ <<a, c>> \in graph.PROCURED
        /\ <<c, con>> \in graph.AWARDED_TO
        /\ fromisoformat(graph.props[c].award_date) \in s..(s + d)}

\* C12: a finding of timing_cluster(d, m) is for an agency and a contractor
\* with at least m distinct contracts awarded within a window of d days, and
\* its contract_count and its contracts count each contract once.
C12_TimingWindowCountedOnce ==
    rf_pc = "done" =>
        \A f \in flags :
            /\ \E c0 \in DOMAIN graph.props :
                  Cardinality(InWindow(f.agency, f.contractor,
                                       fromisoformat(graph.props[c0].award_date),
                                       rf_args.days_threshold))
                      >= rf_args.min_contracts
            /\ \A c \in DOMAIN f.contracts : f.contracts[c] = 1
            /\ f.contract_count = Cardinality(DOMAIN f.contracts)

\* C13: identical_bid_amounts flags two distinct bidders of a contract
\* exactly when both bids are positive and their difference, relative to
\* the smaller bid, is below the tolerance.
C13_DeviationRelativeToSmallerBid ==
    rf_pc = "done" =>
        \A e1 \in DOMAIN graph.BID_ON : \A e2 \in DOMAIN graph.BID_ON :
            (e1[2] = e2[2] /\ e1[1] # e2[1]) =>
                LET bid1 == graph.BID_ON[e1]
                    bid2 == graph.BID_ON[e2]
                IN  (\E f \in flags :
                        /\ f.contract_ref = e1[2]
                        /\ {f.bidder1, f.bidder2} = {e1[1], e2[1]})
                    <=> /\ bid1 > 0
                        /\ bid2 > 0
                        /\ Abs(bid1 - bid2) * rf_args.tolerance.d
                              < rf_args.tolerance.n * Min(bid1, bid2)

\* the contracts awarded to con by an agency whose municipality lies in a
\* region other than that of home
OutsideRegion(con, home) ==
    {c \in DOMAIN graph.props :
        /\ <<c, con>> \in graph.AWARDED_TO
        /\ \E a \in GeoAgencies : \E loc \in DOMAIN region :
              /\ <<a, c>> \in graph.PROCURED
              /\ <<loc, a>> \in graph.HAS_AGENCY
              /\ region[loc] # region[home]}

\* C14: a finding of geographic_anomaly is for a contractor with at least 3
\* contracts from agencies of a region other than its own; contracts from
\* its own region, or from agencies with no municipality, do not count.
C14_OnlyOutsideRegionCounts ==
    rf_pc = "done" =>
        \A f \in flags :
            /\ <<f.contractor, f.home_municipality>> \in graph.LOCATED_IN
            /\ Cardinality(OutsideRegion(f.contractor, f.home_municipality))
                  >= 3

\* C15: a finding of campaign_connection is for a contractor that donated
\* to the politician and was awarded, by an agency of a municipality the
\* politician governs, a contract later than the donation.
C15_ContractAfterDonation ==
    rf_pc = "done" =>
        \A f \in flags :
            /\ <<f.contractor, f.donation>> \in graph.DONATED_BY
            /\ <<f.donation, f.politician>> \in graph.DONATED_TO
            /\ \E c \in f.contracts :
                  /\ <<c, f.contractor>> \in graph.AWARDED_TO
                  /\ \E e \in graph.PROCURED : \E h \in graph.HAS_AGENCY :
                        /\ e[2] = c
                        /\ h[2] = e[1]
                        /\ <<f.politician, h[1]>> \in graph.GOVERNS
                  /\ fromisoformat(graph.props[c].award_date)
                        > fromisoformat(graph.donations[f.donation].date)

\* the contracts awarded to con that had a single bid
SingleBidContracts(con) ==
    {c \in DOMAIN graph.props :
        <<c, con>> \in graph.AWARDED_TO /\ graph.props[c].bid_count = 1}

\* C16: single_bidder_contracts(t) has exactly one finding for every
\* contractor with at least t single-bid contracts and none for the others;
\* the finding lists exactly those contracts and has severity medium.
C16_OneFindingPerSingleBidder ==
    rf_pc = "done" =>
        \A con \in Contractors :
            LET mine == {f \in flags : f.contractor = con}
            IN  IF Cardinality(SingleBidContracts(con)) >= rf_args.threshold
                THEN /\ Cardinality(mine) = 1
                     /\ \A f \in mine :
                           /\ f.contracts = SingleBidContracts(con)
                           /\ f.single_bid_count
                                 = Cardinality(SingleBidContracts(con))
                           /\ f.severity = "medium"
                           /\ f.type = "single_bidder"
                ELSE mine = {}

\* C16 witness: threshold 3 and a contractor with 4 contracts, 3 of them
\* with a single bid, that has its finding.
C16_Witness ==
    /\ rf_pc = "done"
    /\ rf_args.threshold = 3
    /\ \E con \in Contractors :
          /\ Cardinality({c \in DOMAIN graph.props :
                             <<c, con>> \in graph.AWARDED_TO}) = 4
          /\ Cardinality(SingleBidContracts(con)) = 3
          /\ \E f \in flags : f.contractor = con /\ f.single_bid_count = 3

\* the value awarded by agency a to contractor con, and by a in all
ValueOf(a, con) ==
    LET mine == {c \in DOMAIN graph.props :
                    <<a, c>> \in graph.PROCURED
                        /\ <<c, con>> \in graph.AWARDED_TO}
    IN  SumOver(mine, [c \in mine |-> graph.props[c].amount])

TotalOf(a) ==
    SumOver(ShareHolders, [con \in ShareHolders |-> ValueOf(a, con)])

\* the sum of the squared value shares of agency a, its total being > 0
HHI(a) ==
    Frac(SumOver(ShareHolders,
                 [con \in ShareHolders |-> ValueOf(a, con) * ValueOf(a, con)]),
         TotalOf(a) * TotalOf(a))

\* C17: concentration(h) has exactly one finding for every agency with a
\* total value > 0 and an HHI above h, and none for the others; the finding
\* has that HHI and severity high, and shares 0.6, 0.3 and 0.1 give, for
\* h = 0.25, one finding with HHI 0.46 and a top share of 60%.
C17_OneFindingPerConcentratedAgency ==
    rf_pc = "done" =>
        \A a \in Agencies :
            LET mine == {f \in flags : f.agency = a}
            IN  IF TotalOf(a) > 0 /\ FracLT(rf_args.threshold, HHI(a))
                THEN /\ Cardinality(mine) = 1
                     /\ \A f \in mine :
                           /\ f.hhi = HHI(a)
                           /\ f.severity = "high"
                           /\ \A t \in f.top_contractors :
                                 t.share = Frac(ValueOf(a, t.name), TotalOf(a))
                ELSE mine = {}


\* C18: get_agency_concentration of an agency of the store with non-negative
\* amounts returns an HHI between 0 and 1, equal to 1 exactly when one
\* contractor holds the whole value; an agency without contracts, or with a
\* total value of 0, gets shares of 0 and an HHI of 0.
C18_HhiBetweenZeroAndOne ==
    rf_pc = "done" =>
        LET a == rf_args.agency_id
        IN  /\ flags.total_value = TotalOf(a)
            /\ IF TotalOf(a) > 0
               THEN /\ FracGE(flags.hhi, Frac(0, 1))
                    /\ FracGE(Frac(1, 1), flags.hhi)
                    /\ flags.hhi = HHI(a)
                    /\ flags.hhi = Frac(1, 1)
                           <=> \E con \in ShareHolders :
                                  ValueOf(a, con) = TotalOf(a)
               ELSE /\ flags.hhi = Frac(0, 1)
                    /\ \A t \in flags.top_contractors : t.share = Frac(0, 1)

C18_Witness ==
    /\ rf_pc = "done"
    /\ flags.total_value > 0
    /\ flags.hhi = Frac(1, 1)
    /\ Cardinality(flags.top_contractors) = 2


\* the chain c1 -> c2 -> c3 exists and returns to c1
ReturnsToOrigin(c1, c2, c3) ==
    /\ <<c1, c2>> \in graph.SUBCONTRACTED_TO
    /\ <<c2, c3>> \in graph.SUBCONTRACTED_TO
    /\ c3 = c1 \/ <<c3, c1>> \in graph.SUBCONTRACTED_TO

\* C19: circular_flow has a finding for (c1, c2, c3) exactly when the
\* SUBCONTRACTED_TO edges c1 -> c2 and c2 -> c3 exist and c3 = c1 or an edge
\* c3 -> c1 exists, so that every cycle of length at most 3 gives a finding;
\* every finding has severity critical.
C19_FindingIffChainReturns ==
    rf_pc = "done" =>
        /\ \A f \in flags : f.severity = "critical"
        /\ \A c1, c2, c3 \in Subcontractors :
              (\E f \in flags : /\ f.contractor1 = c1
                                /\ f.contractor2 = c2
                                /\ f.contractor3 = c3)
                  <=> ReturnsToOrigin(c1, c2, c3)


\* the names of the thirteen detectors of the catalog
CatalogNames ==
    {"single_bidder", "identical_bid_amounts", "split_contracts",
     "concentration", "rotating_winners", "political_connections",
     "geographic_anomaly", "shell_company", "phoenix_company",
     "campaign_connection", "circular_flow", "timing_cluster",
     "shell_network"}

\* C20: the mapping detect_all returns has exactly 13 entries, keyed by the
\* catalog names of the detectors, and every finding under a key carries
\* that key as its type tag.
C20_KeysAreCatalogNamesAndTypeTags ==
    da_status = "returned" =>
        /\ Cardinality(DOMAIN da_result) = 13
        /\ DOMAIN da_result = CatalogNames
        /\ \A k \in DOMAIN da_result :
              \A i \in DOMAIN da_result[k] : da_result[k][i] = k


\* C21: each of the 13 detectors, run on an empty store or on a store with
\* nodes and no relationship, returns an empty list and does not raise.
C21_NoRelationshipNoFinding ==
    rf_pc = "done" => rf_args.detector \in DetectorNames /\ flags = {}

C21_Witness ==
    /\ rf_pc = "done"
    /\ rf_args.detector = "shell_company"
    /\ Len(graph.props) = MaxLooseContracts
    /\ \E con \in Firms : graph.capital[con] > 0
    /\ flags = {}


\* the contracts the contractor of the profile bid on and did not win
NonWinningBids ==
    {c \in DOMAIN graph.props :
        /\ <<rf_args.contractor_id, c>> \in DOMAIN graph.BID_ON
        /\ <<c, rf_args.contractor_id>> \notin graph.AWARDED_TO}

\* C22: the win_rate of a contractor profile is wins / (wins + non-winning
\* bids), wins being the number of contracts awarded to the contractor; it
\* is 0 when the contractor has no bids, and it always lies in [0, 1].
C22_WinRateOverWinsAndLosses ==
    rf_pc = "done" =>
        LET con == rf_args.contractor_id
            wins == Cardinality({c \in DOMAIN graph.props :
                                    <<c, con>> \in graph.AWARDED_TO})
            bids == {e \in DOMAIN graph.BID_ON : e[1] = con}
        IN  /\ flags.total_contracts = wins
            /\ FracGE(flags.win_rate, Frac(0, 1))
            /\ FracGE(Frac(1, 1), flags.win_rate)
            /\ flags.win_rate =
                  IF bids = {} THEN Frac(0, 1)
                  ELSE Frac(wins, wins + Cardinality(NonWinningBids))


\* the nodes one relationship away from a node of S, in either direction
Neighbours(S) ==
    {n \in PathNodes :
        \E m \in S : <<n, m>> \in graph.RELS \/ <<m, n>> \in graph.RELS}

RECURSIVE WithinHops(_, _)
\* the nodes that 1 to k relationships connect with node a
WithinHops(a, k) ==
    IF k = 1 THEN Neighbours({a})
    ELSE WithinHops(a, k - 1) \cup Neighbours(WithinHops(a, k - 1))

\* a path object that leads from from_id to to_id over its own edges
ConnectsEnds(path, from_id, to_id) ==
    /\ path.length >= 1
    /\ Len(path.edges) = path.length
    /\ Len(path.nodes) = path.length + 1
    /\ path.nodes[1] = from_id
    /\ path.nodes[Len(path.nodes)] = to_id
    /\ \A i \in DOMAIN path.edges :
          /\ {path.edges[i].source, path.edges[i].target}
                 = {path.nodes[i], path.nodes[i + 1]}
          /\ <<path.edges[i].source, path.edges[i].target>> \in graph.RELS

\* C23: when no path of at most max_depth hops connects the two nodes, the
\* path query answers with the no-result signal (None, 404 NO_PATH); a
\* successful answer holds a path that is not empty, has at most max_depth
\* hops and leads from from to to.
C23_NoPathIsNotFound ==
    rf_pc \in {"done", "raised"} =>
        /\ rf_args.to \notin WithinHops(rf_args.from, rf_args.max_depth)
               => /\ flags.result = {}
                  /\ flags.status = 404
                  /\ flags.code = "NO_PATH"
        /\ flags.status = 200 <=> flags.result # {}
        /\ \A path \in flags.result :
              /\ path.length <= rf_args.max_depth
              /\ ConnectsEnds(path, rf_args.from, rf_args.to)


\* no two nodes with the same label and unique key, no two relationships
\* with the same type, source and target
NoDuplicates(g) ==
    /\ \A i, j \in DOMAIN g.nodes :
          /\ g.nodes[i].label = g.nodes[j].label
          /\ Field(g.nodes[i].props,
                   IF g.nodes[i].label = "Contract" THEN "reference_number"
                   ELSE "name")
               = Field(g.nodes[j].props,
                       IF g.nodes[j].label = "Contract" THEN "reference_number"
                       ELSE "name")
          => i = j
    /\ \A i, j \in DOMAIN g.edges : g.edges[i] = g.edges[j] => i = j

\* C24: loading the same records any number of times leaves the store with
\* the nodes and relationships of the first load, at most one node per
\* label and unique key and one relationship per type, source and target.
C24_LoadIsIdempotent ==
    rf_args.runs >= 1 => graph = rf_args.first /\ NoDuplicates(graph)

C24_Witness ==
    /\ rf_args.runs = MaxLoadRuns
    /\ Len(graph.nodes) = 4
    /\ Len(graph.edges) = 3


\* the bucket a request counts in: chat for /api/v1/chat*, graph for every
\* other path under /api/v1/, none for the rest
BucketOf(path) ==
    IF StartsWith(path, ChatPath) THEN "chat"
    ELSE IF StartsWith(path, ApiV1) THEN "graph"
    ELSE "none"

\* the positions of the requests of ip that were let through in bucket b
Allowed(ip, b) ==
    {i \in DOMAIN answered :
        /\ answered[i].ip = ip
        /\ BucketOf(answered[i].path) = b
        /\ answered[i].status = 200}

\* the times of a list of timestamps, with their number of occurrences
Occurrences(ts, t) == Cardinality({i \in DOMAIN ts : ts[i] = t})

\* C26: for every client and bucket, at most max_requests requests are let
\* through within any window; the timestamps kept are those of requests of
\* that client and bucket that were let through, so that a rejected request
\* and a request of the other bucket add none.
C26_WindowNeverExceeded ==
    \A ip \in DOMAIN rate_limits : \A b \in Buckets :
        LET max == IF b = "chat" THEN chat_rate_limit ELSE graph_rate_limit
        IN  /\ \A i \in Allowed(ip, b) :
                  Cardinality({j \in Allowed(ip, b) :
                      /\ answered[j].time <= answered[i].time
                      /\ answered[j].time > answered[i].time - Window}) <= max
            /\ \A t \in 0..MaxNow :
                  Occurrences(rate_limits[ip][b], t)
                      <= Cardinality({i \in Allowed(ip, b) :
                                         answered[i].time = t})
            /\ \A i \in DOMAIN answered :
                  answered[i].status = 429 => BucketOf(answered[i].path) # "none"

C26_Witness ==
    /\ Len(answered) = MaxRequests
    /\ \E i, j, k \in DOMAIN answered :
          /\ i < j /\ j < k
          /\ answered[i].ip = answered[j].ip /\ answered[j].ip = answered[k].ip
          /\ answered[i].path = ChatStreamPath
          /\ answered[j].path = ChatStreamPath
          /\ answered[k].path = ChatStreamPath
          /\ answered[i].status = 200
          /\ answered[j].status = 429
          /\ answered[k].status = 200


\* the positions of the events of a kind
EventsOf(kinds) == {i \in DOMAIN ch_events : ch_events[i].event \in kinds}

\* C27: a chat stream that is not cancelled emits one message_id event
\* first, then token events, then one terminal event, done or error with
\* code LLM_ERROR, and one meta event last; no token follows the terminal
\* event.
C27_EventOrder ==
    /\ EventsOf({"message_id"}) \subseteq {1}
    /\ Cardinality(EventsOf({"done", "error"})) <= 1
    /\ \A i \in EventsOf({"error"}) : ch_events[i].data.code = "LLM_ERROR"
    /\ \A i \in EventsOf({"token"}) :
          \A j \in EventsOf({"done", "error", "meta"}) : i < j
    /\ \A i \in EventsOf({"meta"}) :
          i = Len(ch_events) /\ i - 1 \in EventsOf({"done", "error"})
    /\ ch_pc = "closed" =>
          /\ EventsOf({"message_id"}) = {1}
          /\ EventsOf({"meta"}) = {Len(ch_events)}
          /\ EventsOf({"done", "error"}) = {Len(ch_events) - 1}
          /\ EventsOf({"token"}) = 2..(Len(ch_events) - 2)

C27_Witness ==
    /\ ch_pc = "closed"
    /\ Cardinality(EventsOf({"token"})) = 2
    /\ EventsOf({"error"}) # {}


\* C25: every item of GET /analytics/red-flags is attributed to a node of
\* the evidence of each of its findings, never to the placeholder unknown,
\* and its entity_type is the label of that node.
C25_ItemsAttributedToEvidenceNodes ==
    rf_pc = "done" =>
        \A item \in flags :
            /\ item.entity_id # <<"unknown">>
            /\ \A i \in DOMAIN item.red_flags :
                  \E k \in DOMAIN item.red_flags[i].evidence :
                      item.red_flags[i].evidence[k] = item.entity_id
            /\ item.entity_type = item.entity_id[1]


\* C28: rotating_winners returns at most one finding for an unordered pair
\* of contractors; a pair with one CO_BID_WITH relationship is not reported
\* again with the contractors swapped.
C28_OneFindingPerPair ==
    rf_pc = "done" =>
        \A f1, f2 \in flags :
            {f1.contractor1_id, f1.contractor2_id}
                = {f2.contractor1_id, f2.contractor2_id} => f1 = f2


\* C29: the list deduplicate_by_reference produces holds at most one record
\* for a reference_number, and derive_co_bidding on the contracts file that
\* collect wrote emits no co-bidding edge.
C29_DeduplicatedFileHasNoCoBidders ==
    /\ cb_pc \in {"saved", "done"} =>
          \A i, j \in DOMAIN cb_rows.file :
              cb_rows.file[i].reference_number
                  = cb_rows.file[j].reference_number => i = j
    /\ cb_pc = "done" => cb_edges = {}

\* two contractors shared two references before the records were
\* deduplicated
C29_Witness ==
    /\ cb_pc = "done"
    /\ CoBidEdges(BiddersOf(cb_rows.all_records)) # {}
    /\ Len(cb_rows.file) = MaxCollectedRefs


\* C30: a file that a completed run of collect parsed is in the
\* processed_files of collector_state.json and no later run parses it
\* again, also when the run that parsed it produced no record.
C30_ParsedFilesPersistedAndSkipped ==
    \A f \in XlsxNames :
        parsed[f] > 0 =>
            /\ InList(f, state_file.processed_files)
            /\ parsed[f] = 1

=============================================================================
